---- MODULE Spec2Model ----
(***************************************************************************)
(* Call-graph snapshots, the graph diff engine (callgraph/graph_diff.py)   *)
(* and the plan engine (callgraph/plan_engine.py).                         *)
(*                                                                         *)
(* Strings that the code builds, slugs or sorts (node ids, node names,     *)
(* file paths) are sequences of symbols: one-character strings, plus the   *)
(* id prefixes "dir:", "file:", ... which always stand first in an id.     *)
(* Python's None is PyNone for a numeric field and the empty string for a  *)
(* string field (a parent of None and a parent of "" are both falsy for    *)
(* `if pid` / `while pid`); a key that a dict lacks is Missing.            *)
(***************************************************************************)
EXTENDS Integers, Sequences, FiniteSets, TLC

VARIABLES
    pc,          \* "input" before the call, "done" after a return, "raised" after an exception
    graph_a,     \* compute_diff: base graph, [nodes |-> <<node>>, edges |-> <<edge>>]
    graph_b,     \* compute_diff: target graph
    diff,        \* the diff returned (NoDiff while there is none)
    objs,        \* apply_plan: the node dicts in memory, by object reference
    node_lists,  \* apply_plan: the node list objects (lists of references into objs)
    edge_lists,  \* apply_plan: the edge list objects
    graph,       \* apply_plan: the caller's graph dict, [nodes |-> list ref, edges |-> list ref]
    modified,    \* apply_plan: the working copy's dict
    node_index,  \* apply_plan: id -> reference of the node dict in the working copy
    plan,        \* apply_plan: the plan, [name |-> ..., operations |-> <<op>>]
    tree,        \* build_graph: the files below root, <<[path |-> ..., ast |-> syntax tree]>>
    built        \* build_graph: the graph returned (NoGraph while there is none)

vars == <<pc, graph_a, graph_b, diff, objs, node_lists, edge_lists, graph, modified,
          node_index, plan, tree, built>>

----------------------------------------------------------------------------
(* Python values *)

PyNone == -1

Missing == -2

NoneStr == <<>>

\* dict.get(key): None when the key is missing
Get(v) == IF v = Missing THEN PyNone ELSE v

\* dict.get(key, default)
GetOr(v, d) == IF v = Missing THEN d ELSE v

\* Code-point order of the symbols that occur in sorted strings.
CodeOrder ==
    <<" ", ".", "/", ":", "A", "_", "a", "b", "c", "class:", "d", "dir:", "e", "f", "file:",
      "func:", "g", "h", "i", "j", "k", "l", "m", "n", "o", "p", "plan:", "q", "r", "s", "t",
      "u", "v", "w", "x", "y", "z">>

Rank(c) == CHOOSE i \in 1..Len(CodeOrder) : CodeOrder[i] = c

RECURSIVE StrLess(_, _)
\* s < t for two strings
StrLess(s, t) ==
    IF t = <<>> THEN FALSE
    ELSE IF s = <<>> THEN TRUE
    ELSE IF Head(s) = Head(t) THEN StrLess(Tail(s), Tail(t))
    ELSE Rank(Head(s)) < Rank(Head(t))

RECURSIVE SortedIds(_)
\* sorted(S) for a set of id strings
SortedIds(S) ==
    IF S = {} THEN <<>>
    ELSE LET m == CHOOSE x \in S : \A y \in S \ {x} : StrLess(x, y)
         IN  <<m>> \o SortedIds(S \ {m})

TypeOrder == <<"calls", "contains", "imports">>

TypeRank(t) == CHOOSE i \in 1..Len(TypeOrder) : TypeOrder[i] = t

\* e < f for two (from, to, type) tuples
TripleLess(e, f) ==
    IF e[1] # f[1] THEN StrLess(e[1], f[1])
    ELSE IF e[2] # f[2] THEN StrLess(e[2], f[2])
    ELSE TypeRank(e[3]) < TypeRank(f[3])

RECURSIVE SortedTriples(_)
SortedTriples(S) ==
    IF S = {} THEN <<>>
    ELSE LET m == CHOOSE x \in S : \A y \in S \ {x} : TripleLess(x, y)
         IN  <<m>> \o SortedTriples(S \ {m})

RECURSIVE IterationOrders(_)
\* The orders in which Python may iterate over a set of strings (hash order).
IterationOrders(S) ==
    IF S = {} THEN {<<>>}
    ELSE UNION {{<<x>> \o o : o \in IterationOrders(S \ {x})} : x \in S}

Range(s) == {s[i] : i \in DOMAIN s}

----------------------------------------------------------------------------
(* graph_diff.py *)

\* ids of {n["id"]: n for n in nodes}
IdsOf(nodes) == {nodes[i].id : i \in DOMAIN nodes}

\* {n["id"]: n for n in nodes}[id]: the last node of the list with that id
NodeOf(nodes, id) ==
    LET last == CHOOSE i \in DOMAIN nodes :
                    /\ nodes[i].id = id
                    /\ \A j \in DOMAIN nodes : nodes[j].id = id => j <= i
    IN  nodes[last]

RECURSIVE SelectIds(_, _, _)
\* [n["id"] for n in nodes if n.get("parent") == pid], in list order
SelectIds(nodes, pid, i) ==
    IF i > Len(nodes) THEN <<>>
    ELSE (IF nodes[i].parent = pid THEN <<nodes[i].id>> ELSE <<>>) \o SelectIds(nodes, pid, i + 1)

_build_children_map(nodes) ==
    LET pids == {nodes[i].parent : i \in DOMAIN nodes} \ {NoneStr}
    IN  [p \in pids |-> SelectIds(nodes, p, 1)]

\* children_map.get(node_id, [])
ChildrenOf(children_map, node_id) ==
    IF node_id \in DOMAIN children_map THEN children_map[node_id] ELSE <<>>

RECURSIVE DescendantsLoop(_, _, _)
DescendantsLoop(stack, result, children_map) ==
    IF stack = <<>> THEN result
    ELSE LET cid  == stack[Len(stack)]
             rest == SubSeq(stack, 1, Len(stack) - 1)
         IN  IF cid \notin result
             THEN DescendantsLoop(rest \o ChildrenOf(children_map, cid), result \cup {cid},
                                  children_map)
             ELSE DescendantsLoop(rest, result, children_map)

\* as _get_descendants, but the children only: no walk further down
DirectChildrenOnly(node_id, children_map) ==
    {ChildrenOf(children_map, node_id)[i] : i \in DOMAIN ChildrenOf(children_map, node_id)}

_get_descendants(node_id, children_map) ==
    DescendantsLoop(ChildrenOf(children_map, node_id), {}, children_map)

\* as Cascade, but without cascaded.add(id): the descendants only
CascadeDescendantsOnly(raw_ids, children_map, ids) ==
    (UNION {_get_descendants(r, children_map) : r \in raw_ids}) \cap ids

\* the cascade loops of compute_diff, for removals (lines 37-42) and additions (45-49)
Cascade(raw_ids, children_map, ids) ==
    (raw_ids \cup UNION {_get_descendants(r, children_map) : r \in raw_ids}) \cap ids

_node_summary(node) ==
    [id                |-> node.id,
     name              |-> node.name,
     abstraction_level |-> GetOr(node.abstraction_level, 0),
     lines_of_code     |-> GetOr(node.lines_of_code, 0)]

ComparedFields == {"lines_of_code", "export_count", "abstraction_level"}

\* as _detect_changes, but without the test val_a != val_b
DetectChangesNoCompare(node_a, node_b) ==
    LET changed == {f \in ComparedFields :
                        Get(node_a[f]) # PyNone /\ Get(node_b[f]) # PyNone}
    IN  [f \in changed |-> <<Get(node_a[f]), Get(node_b[f])>>]

\* as _detect_changes, but without the two tests for None
DetectChangesNoNullCheck(node_a, node_b) ==
    LET changed == {f \in ComparedFields : Get(node_a[f]) # Get(node_b[f])}
    IN  [f \in changed |-> <<Get(node_a[f]), Get(node_b[f])>>]

_detect_changes(node_a, node_b) ==
    LET changed == {f \in ComparedFields :
                        /\ Get(node_a[f]) # Get(node_b[f])
                        /\ Get(node_a[f]) # PyNone
                        /\ Get(node_b[f]) # PyNone}
    IN  [f \in changed |-> <<Get(node_a[f]), Get(node_b[f])>>]

RECURSIVE SelectByName(_, _, _, _)
\* removed_by_name[name]: the removed ids of that name, in the iteration order
SelectByName(order, nodes_a, name, i) ==
    IF i > Len(order) THEN <<>>
    ELSE (IF NodeOf(nodes_a, order[i]).name = name THEN <<order[i]>> ELSE <<>>)
         \o SelectByName(order, nodes_a, name, i + 1)

RemovedByName(order, nodes_a) ==
    [name \in {NodeOf(nodes_a, order[i]).name : i \in DOMAIN order}
        |-> SelectByName(order, nodes_a, name, 1)]

RECURSIVE MoveLoop(_, _, _, _, _, _)
\* for aid in sorted(cascaded_added): pair it with the first removed id of its name
MoveLoop(added_sorted, i, removed_by_name, moved_nodes, nodes_a, nodes_b) ==
    IF i > Len(added_sorted) THEN moved_nodes
    ELSE LET aid  == added_sorted[i]
             name == NodeOf(nodes_b, aid).name
         IN  IF name \in DOMAIN removed_by_name /\ removed_by_name[name] # <<>>
             THEN LET rid == Head(removed_by_name[name])
                      m   == [id                |-> aid,
                              old_id            |-> rid,
                              name              |-> name,
                              old_file_path     |-> NodeOf(nodes_a, rid).file_path,
                              new_file_path     |-> NodeOf(nodes_b, aid).file_path,
                              abstraction_level |->
                                  GetOr(NodeOf(nodes_b, aid).abstraction_level, 0)]
                  IN  MoveLoop(added_sorted, i + 1,
                               [removed_by_name EXCEPT ![name] = Tail(@)],
                               Append(moved_nodes, m), nodes_a, nodes_b)
             ELSE MoveLoop(added_sorted, i + 1, removed_by_name, moved_nodes, nodes_a, nodes_b)

RECURSIVE ModifiedLoop(_, _, _, _)
\* for nid in sorted(common_ids): an entry when _detect_changes finds a change
ModifiedLoop(common_sorted, i, nodes_a, nodes_b) ==
    IF i > Len(common_sorted) THEN <<>>
    ELSE LET nid     == common_sorted[i]
             changes == _detect_changes(NodeOf(nodes_a, nid), NodeOf(nodes_b, nid))
         IN  (IF DOMAIN changes # {} THEN <<[id |-> nid, changes |-> changes]>> ELSE <<>>)
             \o ModifiedLoop(common_sorted, i + 1, nodes_a, nodes_b)

\* nodes_b.get(id) or nodes_a.get(id), then .get("parent"); None when neither has the id
ParentOf(id, nodes_a, nodes_b) ==
    IF id \in IdsOf(nodes_b) THEN NodeOf(nodes_b, id).parent
    ELSE IF id \in IdsOf(nodes_a) THEN NodeOf(nodes_a, id).parent
    ELSE NoneStr

RECURSIVE BubbleWalk(_, _, _, _, _)
\* the while loop of lines 99-111; st = [modified_ids, modified_nodes, all_changed_ids]
BubbleWalk(pid, st, already_categorized, nodes_a, nodes_b) ==
    IF pid = NoneStr THEN st
    ELSE IF pid \in already_categorized \/ pid \in st.modified_ids THEN st
    ELSE LET st2 == IF /\ pid \in IdsOf(nodes_a)
                       /\ pid \in IdsOf(nodes_b)
                       /\ pid \notin st.all_changed_ids
                    THEN [modified_ids    |-> st.modified_ids \cup {pid},
                          modified_nodes  |->
                              Append(st.modified_nodes,
                                     [id |-> pid,
                                      changes |-> [f \in {"children_changed"} |-> <<TRUE, TRUE>>]]),
                          all_changed_ids |-> st.all_changed_ids \cup {pid}]
                    ELSE st
         IN  BubbleWalk(ParentOf(pid, nodes_a, nodes_b), st2, already_categorized,
                        nodes_a, nodes_b)

RECURSIVE BubbleLoop(_, _, _, _, _, _)
\* for cid in list(all_changed_ids), in the iteration order of the set
BubbleLoop(order, i, st, already_categorized, nodes_a, nodes_b) ==
    IF i > Len(order) THEN st
    ELSE BubbleLoop(order, i + 1,
                    BubbleWalk(ParentOf(order[i], nodes_a, nodes_b), st, already_categorized,
                               nodes_a, nodes_b),
                    already_categorized, nodes_a, nodes_b)

\* as EdgeTriples, but keyed by the two endpoints only
EdgeTriplesNoType(edges) == {<<edges[i].from, edges[i].to, "imports">> : i \in DOMAIN edges}

EdgeTriples(edges) == {<<edges[i].from, edges[i].to, edges[i].type>> : i \in DOMAIN edges}

EdgeDicts(triples) ==
    [i \in DOMAIN triples |->
        [from |-> triples[i][1], to |-> triples[i][2], type |-> triples[i][3]]]

\* as cascaded_removed, but the descendants are read from the children map of B
CascadedRemovedByTarget(ga, gb) ==
    Cascade(IdsOf(ga.nodes) \ IdsOf(gb.nodes), _build_children_map(gb.nodes), IdsOf(ga.nodes))

\* lines 22-54: the id sets before move detection
cascaded_removed(ga, gb) ==
    Cascade(IdsOf(ga.nodes) \ IdsOf(gb.nodes), _build_children_map(ga.nodes), IdsOf(ga.nodes))

cascaded_added(ga, gb) ==
    Cascade(IdsOf(gb.nodes) \ IdsOf(ga.nodes), _build_children_map(gb.nodes), IdsOf(gb.nodes))

\* lines 51-86 of compute_diff: move detection, the added and removed lists and the
\* modified entries, for removed_by_name as lines 56-59 built it
Classify(ga, gb, removed_by_name) ==
    LET nodes_a == ga.nodes
        nodes_b == gb.nodes
        moved_nodes == MoveLoop(SortedIds(cascaded_added(ga, gb)), 1, removed_by_name, <<>>,
                                nodes_a, nodes_b)
        moved_ids   == {moved_nodes[i].id : i \in DOMAIN moved_nodes}
        moved_old   == {moved_nodes[i].old_id : i \in DOMAIN moved_nodes}
        remaining_added   == cascaded_added(ga, gb) \ moved_ids
        remaining_removed == cascaded_removed(ga, gb) \ moved_old
        added_sorted   == SortedIds(remaining_added)
        removed_sorted == SortedIds(remaining_removed)
        already_categorized == remaining_added \cup remaining_removed \cup moved_ids
                               \cup moved_old
        common_ids == (IdsOf(nodes_a) \cap IdsOf(nodes_b)) \ already_categorized
        modified_nodes == ModifiedLoop(SortedIds(common_ids), 1, nodes_a, nodes_b)
        modified_ids   == {modified_nodes[i].id : i \in DOMAIN modified_nodes}
    IN  [moved_nodes    |-> moved_nodes,
         added_nodes    |-> [i \in DOMAIN added_sorted |->
                                _node_summary(NodeOf(nodes_b, added_sorted[i]))],
         removed_nodes  |-> [i \in DOMAIN removed_sorted |->
                                _node_summary(NodeOf(nodes_a, removed_sorted[i]))],
         already_categorized |-> already_categorized,
         modified_nodes  |-> modified_nodes,
         modified_ids    |-> modified_ids,
         all_changed_ids |-> remaining_added \cup remaining_removed \cup modified_ids
                             \cup moved_ids]

\* lines 88-111: modified_nodes after the bubbling loop has run over all_changed_ids
Bubble(c, changed_order, ga, gb) ==
    BubbleLoop(changed_order, 1,
               [modified_ids    |-> c.modified_ids,
                modified_nodes  |-> c.modified_nodes,
                all_changed_ids |-> c.all_changed_ids],
               c.already_categorized, ga.nodes, gb.nodes).modified_nodes

\* lines 113-136: the edge diff and the returned dict
Assemble(c, modified_nodes, ga, gb, meta) ==
    LET edges_a == EdgeTriples(ga.edges)
        edges_b == EdgeTriples(gb.edges)
        added_edges   == EdgeDicts(SortedTriples(edges_b \ edges_a))
        removed_edges == EdgeDicts(SortedTriples(edges_a \ edges_b))
    IN  [meta           |-> meta,
         summary        |-> [added_nodes    |-> Len(c.added_nodes),
                             removed_nodes  |-> Len(c.removed_nodes),
                             moved_nodes    |-> Len(c.moved_nodes),
                             modified_nodes |-> Len(modified_nodes),
                             added_edges    |-> Len(added_edges),
                             removed_edges  |-> Len(removed_edges)],
         added_nodes    |-> c.added_nodes,
         removed_nodes  |-> c.removed_nodes,
         moved_nodes    |-> c.moved_nodes,
         modified_nodes |-> modified_nodes,
         added_edges    |-> added_edges,
         removed_edges  |-> removed_edges]

\* The diffs compute_diff(ga, gb, meta) can return: one for each order in which the set
\* cascaded_removed is iterated at line 57 and the set all_changed_ids at line 93.
compute_diff(ga, gb, meta) ==
    LET by_name == {RemovedByName(o, ga.nodes) :
                        o \in IterationOrders(cascaded_removed(ga, gb))}
        classes == {Classify(ga, gb, rbn) : rbn \in by_name}
    IN  UNION {{Assemble(c, m, ga, gb, meta) :
                    m \in {Bubble(c, o, ga, gb) : o \in IterationOrders(c.all_changed_ids)}} :
               c \in classes}

----------------------------------------------------------------------------
(* plan_engine.py *)

\* LAYER_TO_LEVEL.get(layer, 2)
LAYER_TO_LEVEL(layer) ==
    IF layer = "C1" THEN 3
    ELSE IF layer = "C2" THEN 2
    ELSE IF layer = "C3" THEN 1
    ELSE 2

\* op.get(key, default) for a key whose value is a layer label
LayerOf(op, key) == IF key \in op.keys THEN op[key] ELSE "C2"

\* str.lower() on the symbols of a name
Lower(name) == [i \in DOMAIN name |-> IF name[i] = "A" THEN "a" ELSE name[i]]

\* str.replace(' ', '_')
ReplaceSpaces(name) == [i \in DOMAIN name |-> IF name[i] = " " THEN "_" ELSE name[i]]

\* f"plan:{name.lower().replace(' ', '_')}"
PlanNodeId(name) == <<"plan:">> \o ReplaceSpaces(Lower(name))

\* the graph a dict of the heap stands for: its node dicts and its edge dicts, in list order
Deref(h, g) ==
    [nodes |-> [i \in DOMAIN h.node_lists[g.nodes] |-> h.objs[h.node_lists[g.nodes][i]]],
     edges |-> h.edge_lists[g.edges]]

\* copy.copy(graph): a new dict that shares the two lists and the node dicts
ShallowCopy(h, g) == [h EXCEPT !.modified = g]

\* copy.deepcopy(graph): a new dict, new lists and a new dict for every node
DeepCopy(h, g) ==
    LET src   == h.node_lists[g.nodes]
        first == [i \in DOMAIN src |-> CHOOSE k \in DOMAIN src :
                                           src[k] = src[i] /\ \A j \in 1..(k - 1) : src[j] # src[i]]
    IN  [h EXCEPT !.objs       = h.objs \o [i \in DOMAIN src |-> h.objs[src[i]]],
                  !.node_lists = Append(h.node_lists,
                                        [i \in DOMAIN src |-> Len(h.objs) + first[i]]),
                  !.edge_lists = Append(h.edge_lists, h.edge_lists[g.edges]),
                  !.modified   = [nodes |-> Len(h.node_lists) + 1,
                                  edges |-> Len(h.edge_lists) + 1]]

\* {n["id"]: n for n in modified["nodes"]}: the reference of the last node with each id
BuildIndex(h) ==
    LET lst == h.node_lists[h.modified.nodes]
    IN  [h EXCEPT !.node_index =
            [id \in {h.objs[lst[i]].id : i \in DOMAIN lst} |->
                lst[CHOOSE i \in DOMAIN lst :
                        /\ h.objs[lst[i]].id = id
                        /\ \A j \in DOMAIN lst : h.objs[lst[j]].id = id => j <= i]]]

\* as DependsOnEdges, but without the test dep_id in node_index
DependsOnEdgesUnchecked(node_id, depends_on, index) ==
    [i \in DOMAIN depends_on |->
        [from |-> node_id, to |-> depends_on[i], type |-> "imports", weight |-> 1]]

\* lines 62-69: one imports edge for every dep_id that is in node_index
DependsOnEdges(node_id, depends_on, index) ==
    LET found == SelectSeq(depends_on, LAMBDA dep_id : dep_id \in DOMAIN index)
    IN  [i \in DOMAIN found |->
            [from |-> node_id, to |-> found[i], type |-> "imports", weight |-> 1]]

_apply_add(h, op) ==
    IF "name" \notin op.keys THEN [h EXCEPT !.raised = TRUE]
    ELSE LET level   == LAYER_TO_LEVEL(LayerOf(op, "layer"))
             name    == op.name
             node_id == PlanNodeId(name)
             node    == [id                |-> node_id,
                         type              |-> "file",
                         name              |-> name,
                         file_path         |-> <<"(planned)/">> \o name,
                         language          |-> "",
                         lines_of_code     |-> 0,
                         abstraction_level |-> level,
                         export_count      |-> 0,
                         parent            |-> NoneStr]
             ref     == Len(h.objs) + 1
             index   == [id \in DOMAIN h.node_index \cup {node_id} |->
                            IF id = node_id THEN ref ELSE h.node_index[id]]
             deps    == IF "depends_on" \in op.keys THEN op.depends_on ELSE <<>>
         IN  [h EXCEPT !.objs       = Append(h.objs, node),
                       !.node_lists = [@ EXCEPT ![h.modified.nodes] = Append(@, ref)],
                       !.node_index = index,
                       !.edge_lists = [@ EXCEPT ![h.modified.edges] =
                                          @ \o DependsOnEdges(node_id, deps, index)]]

\* [n for n in graph["nodes"] if n["id"] != target_id]
KeepNodes(refs, target_id, heap_objs) ==
    SelectSeq(refs, LAMBDA ref : heap_objs[ref].id # target_id)

\* as KeepEdges, but an edge is dropped only when its "from" is the target
KeepEdgesFromOnly(edges, target_id) ==
    SelectSeq(edges, LAMBDA e : e.from # target_id)

\* [e for e in graph["edges"] if e["from"] != target_id and e["to"] != target_id]
KeepEdges(edges, target_id) ==
    SelectSeq(edges, LAMBDA e : e.from # target_id /\ e.to # target_id)

\* as _apply_remove, but reading the id with op.get("id"): no KeyError
ApplyRemoveLenient(h, op) ==
    IF "id" \notin op.keys THEN h
    ELSE [h EXCEPT !.node_lists = Append(@, KeepNodes(h.node_lists[h.modified.nodes],
                                                      op.id, h.objs)),
                   !.edge_lists = Append(@, KeepEdges(h.edge_lists[h.modified.edges], op.id)),
                   !.modified   = [nodes |-> Len(h.node_lists) + 1,
                                   edges |-> Len(h.edge_lists) + 1],
                   !.node_index = [id \in DOMAIN h.node_index \ {op.id} |-> h.node_index[id]]]

\* the two comprehensions make new lists and rebind the keys of the working dict
_apply_remove(h, op) ==
    IF "id" \notin op.keys THEN [h EXCEPT !.raised = TRUE]
    ELSE LET target_id == op.id
         IN  [h EXCEPT !.node_lists = Append(@, KeepNodes(h.node_lists[h.modified.nodes],
                                                          target_id, h.objs)),
                       !.edge_lists = Append(@, KeepEdges(h.edge_lists[h.modified.edges],
                                                          target_id)),
                       !.modified   = [nodes |-> Len(h.node_lists) + 1,
                                       edges |-> Len(h.edge_lists) + 1],
                       !.node_index = [id \in DOMAIN h.node_index \ {target_id} |->
                                          h.node_index[id]]]

\* as _apply_move, but the level is never written to the node
ApplyMoveNoWrite(h, op) ==
    IF "id" \notin op.keys THEN [h EXCEPT !.raised = TRUE] ELSE h

_apply_move(h, op) ==
    IF "id" \notin op.keys THEN [h EXCEPT !.raised = TRUE]
    ELSE IF op.id \notin DOMAIN h.node_index THEN h
    ELSE [h EXCEPT !.objs[h.node_index[op.id]].abstraction_level =
                        LAYER_TO_LEVEL(LayerOf(op, "to_layer"))]

RECURSIVE OperationsLoop(_, _, _)
\* for op in plan.get("operations", []): a KeyError ends the loop and the call
OperationsLoop(h, operations, i) ==
    IF i > Len(operations) \/ h.raised THEN h
    ELSE LET op == operations[i]
             h2 == IF "op" \notin op.keys THEN [h EXCEPT !.raised = TRUE]
                   ELSE IF op.op = "add" THEN _apply_add(h, op)
                   ELSE IF op.op = "remove" THEN _apply_remove(h, op)
                   ELSE IF op.op = "move" THEN _apply_move(h, op)
                   ELSE h
         IN  OperationsLoop(h2, operations, i + 1)

\* as apply_plan, but the operations are applied from the last to the first
ApplyPlanBackwards(h, g, p) ==
    OperationsLoop(BuildIndex(DeepCopy(h, g)),
                   [i \in DOMAIN p.operations |-> p.operations[Len(p.operations) + 1 - i]], 1)

\* lines 22-32 of apply_plan: the heap when the loop has ended
apply_plan(h, g, p) == OperationsLoop(BuildIndex(DeepCopy(h, g)), p.operations, 1)

\* the heap of the model's state
Heap ==
    [objs |-> objs, node_lists |-> node_lists, edge_lists |-> edge_lists,
     modified |-> modified, node_index |-> node_index, raised |-> FALSE]

\* apply_plan(graph, plan): the diff of the caller's graph and the working copy, or the
\* KeyError of a malformed operation
ApplyPlan ==
    /\ pc = "input"
    /\ graph.nodes # 0
    /\ LET h == apply_plan(Heap, graph, plan)
       IN  /\ objs' = h.objs
           /\ node_lists' = h.node_lists
           /\ edge_lists' = h.edge_lists
           /\ modified' = h.modified
           /\ node_index' = h.node_index
           /\ IF h.raised
              THEN /\ pc' = "raised"
                   /\ UNCHANGED <<graph_a, graph_b, diff>>
              ELSE /\ pc' = "done"
                   /\ graph_a' = Deref(h, graph)
                   /\ graph_b' = Deref(h, h.modified)
                   /\ diff' \in compute_diff(Deref(h, graph), Deref(h, h.modified),
                                             [source |-> "plan", plan_name |-> plan.name])
    /\ UNCHANGED <<graph, plan, tree, built>>

----------------------------------------------------------------------------
(* Strings and paths: a str is the sequence of its characters *)

StartsWith(str, prefix) ==
    Len(str) >= Len(prefix) /\ SubSeq(str, 1, Len(prefix)) = prefix

\* str[n:]
DropChars(str, n) == SubSeq(str, n + 1, Len(str))

RECURSIVE Replace(_, _, _)
\* str.replace(old, new), old not empty: leftmost occurrences, not overlapping
Replace(str, old, new) ==
    IF str = <<>> THEN <<>>
    ELSE IF StartsWith(str, old) THEN new \o Replace(DropChars(str, Len(old)), old, new)
    ELSE <<Head(str)>> \o Replace(Tail(str), old, new)

RECURSIVE LStripSlash(_)
\* str.lstrip("/")
LStripSlash(str) ==
    IF str # <<>> /\ Head(str) = "/" THEN LStripSlash(Tail(str)) ELSE str

RECURSIVE SplitSlash(_, _)
\* the pieces of str between "/" characters; word is the piece being read
SplitSlash(str, word) ==
    IF str = <<>> THEN <<word>>
    ELSE IF Head(str) = "/" THEN <<word>> \o SplitSlash(Tail(str), <<>>)
    ELSE SplitSlash(Tail(str), Append(word, Head(str)))

\* Path(str).parts of a relative path: empty pieces and "." pieces are dropped
PathParts(str) ==
    SelectSeq(SplitSlash(str, <<>>), LAMBDA part : part # <<>> /\ part # <<".">>)

RECURSIVE JoinParts(_)
\* str(Path(*parts))
JoinParts(parts) ==
    IF parts = <<>> THEN <<".">>
    ELSE IF Len(parts) = 1 THEN parts[1]
    ELSE parts[1] \o <<"/">> \o JoinParts(Tail(parts))

\* str(Path(str))
NormPath(str) == JoinParts(PathParts(str))

\* str(Path(str).parent)
ParentPath(str) ==
    LET parts == PathParts(str)
    IN  IF parts = <<>> THEN <<".">> ELSE JoinParts(SubSeq(parts, 1, Len(parts) - 1))

\* Path(str).name
FileName(str) == LET parts == PathParts(str) IN parts[Len(parts)]

\* Path(str).suffix: from the last "." of the name, when that is not its first character
Suffix(str) ==
    LET name == FileName(str)
        dots == {i \in 2..Len(name) : name[i] = "."}
    IN  IF dots = {} \/ name[Len(name)] = "." THEN <<>>
        ELSE DropChars(name, (CHOOSE i \in dots : \A j \in dots : j <= i) - 1)

----------------------------------------------------------------------------
(* discovery.py *)

\* EXTENSION_MAP: the language of a suffix, "" when the suffix is not a key
EXTENSION_MAP(suffix) ==
    IF suffix = <<".", "p", "y">> THEN "python"
    ELSE IF suffix = <<".", "t", "s">> THEN "typescript"
    ELSE IF suffix = <<".", "t", "s", "x">> THEN "typescriptreact"
    ELSE IF suffix = <<".", "j", "s">> THEN "javascript"
    ELSE IF suffix = <<".", "j", "s", "x">> THEN "javascriptreact"
    ELSE ""

SKIP_DIRS ==
    {<<"n", "o", "d", "e", "_", "m", "o", "d", "u", "l", "e", "s">>, <<".", "g", "i", "t">>,
     <<"_", "_", "p", "y", "c", "a", "c", "h", "e", "_", "_">>, <<".", "v", "e", "n", "v">>,
     <<"d", "i", "s", "t">>,
     <<".", "c", "a", "l", "l", "g", "r", "a", "p", "h">>}

\* discover_files(root), root given as the files below it with their relative paths: the
\* files outside skipped directories whose suffix is known, sorted by path
discover_files(root) ==
    LET kept == {f \in Range(root) :
                    /\ \A i \in DOMAIN PathParts(f.path) : PathParts(f.path)[i] \notin SKIP_DIRS
                    /\ EXTENSION_MAP(Suffix(f.path)) # ""}
        order == SortedIds({f.path : f \in kept})
    IN  [i \in DOMAIN order |->
            LET f == CHOOSE x \in kept : x.path = order[i]
            IN  [path |-> f.path, language |-> EXTENSION_MAP(Suffix(f.path)), ast |-> f.ast]]

----------------------------------------------------------------------------
(* parsers: the syntax tree that tree-sitter returns is the input; a tree node is
   [type, func, name, obj, module, names, lines, children] where name is the text of the
   "name" field (of the "attribute" or "property" field for a call through a receiver),
   func the type of a call's "function" field, obj the text of the receiver, module and
   names what an import statement names, lines end_point[0] - start_point[0] + 1 *)

\* a declaration as the parsers return it; the metrics (start_line, end_line,
\* cyclomatic_complexity, param_count, max_nesting) are not read by the builder
ParsedNode(prefix, type, file_path, node, calls) ==
    [id            |-> <<prefix>> \o file_path \o <<":">> \o node.name,
     type          |-> type,
     name          |-> node.name,
     file_path     |-> file_path,
     lines_of_code |-> node.lines,
     calls         |-> calls]

RECURSIVE PyExtractCalls(_)
RECURSIVE PyExtractCallsOfAll(_)
\* python_parser._extract_calls: foo() gives foo, x.foo() gives foo unless x is self or cls
PyExtractCalls(node) ==
    (IF node.type = "call" /\ node.func = "identifier" THEN <<node.name>>
     ELSE IF node.type = "call" /\ node.func = "attribute" /\ node.obj \notin {"self", "cls"}
          THEN <<node.name>>
     ELSE <<>>)
    \o PyExtractCallsOfAll(node.children)

PyExtractCallsOfAll(children) ==
    IF children = <<>> THEN <<>>
    ELSE PyExtractCalls(Head(children)) \o PyExtractCallsOfAll(Tail(children))

RECURSIVE PyExtractNodes(_, _)
RECURSIVE PyExtractNodesOfAll(_, _)
\* python_parser._extract_nodes: every class_definition and function_definition of the
\* tree, nested ones too; the body of a definition is its children
PyExtractNodes(node, file_path) ==
    (IF node.type = "class_definition" /\ node.name # NoneStr
     THEN <<ParsedNode("class:", "class", file_path, node, <<>>)>>
     ELSE <<>>)
    \o (IF node.type = "function_definition" /\ node.name # NoneStr
        THEN <<ParsedNode("func:", "function", file_path, node,
                          PyExtractCallsOfAll(node.children))>>
        ELSE <<>>)
    \o PyExtractNodesOfAll(node.children, file_path)

PyExtractNodesOfAll(children, file_path) ==
    IF children = <<>> THEN <<>>
    ELSE PyExtractNodes(Head(children), file_path)
         \o PyExtractNodesOfAll(Tail(children), file_path)

RECURSIVE PyExtractImports(_)
RECURSIVE PyExtractImportsOfAll(_)
\* python_parser._extract_imports: "from m import a, b" gives m with [a, b]; "import m, n"
\* gives m and n with no names; an import statement is not searched further
PyExtractImports(node) ==
    IF node.type = "import_from_statement"
    THEN (IF node.module # NoneStr THEN <<[module |-> node.module, names |-> node.names]>>
          ELSE <<>>)
    ELSE IF node.type = "import_statement"
    THEN [i \in DOMAIN node.names |-> [module |-> node.names[i], names |-> <<>>]]
    ELSE PyExtractImportsOfAll(node.children)

PyExtractImportsOfAll(children) ==
    IF children = <<>> THEN <<>>
    ELSE PyExtractImports(Head(children)) \o PyExtractImportsOfAll(Tail(children))

parse_python_file(ast, relative_path) ==
    [file_path     |-> relative_path,
     language      |-> "python",
     lines_of_code |-> ast.lines,
     nodes         |-> PyExtractNodes(ast, relative_path),
     imports       |-> PyExtractImports(ast)]

RECURSIVE TsExtractCalls(_)
RECURSIVE TsExtractCallsOfAll(_)
\* typescript_parser._extract_calls: foo() gives foo, x.foo() gives foo for every x
TsExtractCalls(node) ==
    (IF node.type = "call_expression" /\ node.func = "identifier" THEN <<node.name>>
     ELSE IF node.type = "call_expression" /\ node.func = "member_expression"
             /\ node.name # NoneStr
          THEN <<node.name>>
     ELSE <<>>)
    \o TsExtractCallsOfAll(node.children)

TsExtractCallsOfAll(children) ==
    IF children = <<>> THEN <<>>
    ELSE TsExtractCalls(Head(children)) \o TsExtractCallsOfAll(Tail(children))

\* _add_function_node: the calls are read from body_node; for a function_declaration the
\* body is its children, for an arrow function body_node is the arrow_function node
AddFunctionNode(name_holder, scope_node, file_path, body_children) ==
    ParsedNode("func:", "function", file_path,
               [scope_node EXCEPT !.name = name_holder.name],
               TsExtractCallsOfAll(body_children))

\* the variable_declarator children of a lexical_declaration whose value is an arrow
\* function, each as a function node whose scope is the lexical_declaration
ArrowFunctions(decl, file_path) ==
    LET found == SelectSeq(decl.children,
                           LAMBDA c : /\ c.type = "variable_declarator"
                                      /\ c.name # NoneStr
                                      /\ c.children # <<>>
                                      /\ c.children[1].type = "arrow_function")
    IN  [i \in DOMAIN found |->
            AddFunctionNode(found[i], decl, file_path, found[i].children[1].children)]

\* _class_like_type
ClassLikeType(node) ==
    IF node.type = "interface_declaration" THEN "interface"
    ELSE IF node.type = "type_alias_declaration" THEN "type_alias"
    ELSE "class"

\* lines 65-95: what the direct children of an export_statement declare
ExportedNodes(children, file_path) ==
    LET of(c) ==
            (IF c.type = "function_declaration" /\ c.name # NoneStr
             THEN <<AddFunctionNode(c, c, file_path, c.children)>> ELSE <<>>)
            \o (IF c.type = "lexical_declaration" THEN ArrowFunctions(c, file_path) ELSE <<>>)
            \o (IF c.type \in {"interface_declaration", "type_alias_declaration",
                                "class_declaration"} /\ c.name # NoneStr
                THEN <<ParsedNode("class:", ClassLikeType(c), file_path, c, <<>>)>>
                ELSE <<>>)
        RECURSIVE all(_)
        all(cs) == IF cs = <<>> THEN <<>> ELSE of(Head(cs)) \o all(Tail(cs))
    IN  all(children)

RECURSIVE TsExtractNodes(_, _)
RECURSIVE TsExtractNodesOfAll(_, _)
\* typescript_parser._extract_nodes: the children of a function_declaration,
\* arrow_function, method_definition or export_statement are not searched
TsExtractNodes(node, file_path) ==
    (IF node.type = "function_declaration" /\ node.name # NoneStr
     THEN <<AddFunctionNode(node, node, file_path, node.children)>> ELSE <<>>)
    \o (IF node.type = "lexical_declaration" THEN ArrowFunctions(node, file_path) ELSE <<>>)
    \o (IF node.type = "export_statement" THEN ExportedNodes(node.children, file_path)
        ELSE <<>>)
    \o (IF node.type \in {"interface_declaration", "type_alias_declaration"}
           /\ node.name # NoneStr
        THEN <<ParsedNode("class:", ClassLikeType(node), file_path, node, <<>>)>> ELSE <<>>)
    \o (IF node.type = "class_declaration" /\ node.name # NoneStr
        THEN <<ParsedNode("class:", "class", file_path, node, <<>>)>> ELSE <<>>)
    \o (IF node.type \in {"function_declaration", "arrow_function", "method_definition",
                          "export_statement"}
        THEN <<>>
        ELSE TsExtractNodesOfAll(node.children, file_path))

TsExtractNodesOfAll(children, file_path) ==
    IF children = <<>> THEN <<>>
    ELSE TsExtractNodes(Head(children), file_path)
         \o TsExtractNodesOfAll(Tail(children), file_path)

RECURSIVE TsExtractImports(_)
RECURSIVE TsExtractImportsOfAll(_)
\* typescript_parser._extract_imports: one entry for every import statement with a source
TsExtractImports(node) ==
    IF node.type = "import_statement"
    THEN (IF node.module # NoneStr THEN <<[module |-> node.module, names |-> node.names]>>
          ELSE <<>>)
    ELSE TsExtractImportsOfAll(node.children)

TsExtractImportsOfAll(children) ==
    IF children = <<>> THEN <<>>
    ELSE TsExtractImports(Head(children)) \o TsExtractImportsOfAll(Tail(children))

parse_typescript_file(ast, relative_path, language) ==
    [file_path     |-> relative_path,
     language      |-> language,
     lines_of_code |-> ast.lines,
     nodes         |-> TsExtractNodes(ast, relative_path),
     imports       |-> TsExtractImports(ast)]

----------------------------------------------------------------------------
(* graph_builder.py: levels and import resolution *)

Keywords ==
    {<<"m", "o", "d", "e", "l", "s">>, <<"t", "y", "p", "e", "s">>,
     <<"s", "c", "h", "e", "m", "a", "s">>, <<"s", "e", "r", "v", "i", "c", "e", "s">>,
     <<"u", "t", "i", "l", "s">>, <<"h", "o", "o", "k", "s">>,
     <<"l", "i", "b">>, <<"a", "p", "i">>,
     <<"r", "o", "u", "t", "e", "s">>, <<"c", "o", "m", "p", "o", "n", "e", "n", "t", "s">>,
     <<"v", "i", "e", "w", "s">>, <<"m", "a", "i", "n">>,
     <<"a", "p", "p">>, <<"i", "n", "d", "e", "x">>}

\* ABSTRACTION_LEVELS[stem], for a stem that is a key
ABSTRACTION_LEVELS(stem) ==
    IF stem \in {<<"m", "o", "d", "e", "l", "s">>, <<"t", "y", "p", "e", "s">>, <<"s", "c", "h", "e", "m", "a", "s">>} THEN 0
    ELSE IF stem \in {<<"s", "e", "r", "v", "i", "c", "e", "s">>, <<"u", "t", "i", "l", "s">>, <<"h", "o", "o", "k", "s">>, <<"l", "i", "b">>} THEN 1
    ELSE IF stem \in {<<"a", "p", "i">>, <<"r", "o", "u", "t", "e", "s">>, <<"c", "o", "m", "p", "o", "n", "e", "n", "t", "s">>, <<"v", "i", "e", "w", "s">>} THEN 2
    ELSE 3

\* part.replace(".py", "").replace(".ts", "").replace(".tsx", "").replace(".js", "")
StemOf(part) ==
    Replace(Replace(Replace(Replace(part, <<".", "p", "y">>, <<>>), <<".", "t", "s">>, <<>>),
                    <<".", "t", "s", "x">>, <<>>),
            <<".", "j", "s">>, <<>>)

_get_abstraction_level(path) ==
    LET parts == PathParts(path)
        hits  == {i \in DOMAIN parts : StemOf(parts[i]) \in Keywords}
    IN  IF hits = {} THEN 1
        ELSE ABSTRACTION_LEVELS(StemOf(parts[CHOOSE i \in hits : \A j \in hits : i <= j]))

\* the first candidate that is a discovered path, None when there is none
FirstFound(candidates, file_paths) ==
    LET hits == {i \in DOMAIN candidates : candidates[i] \in file_paths}
    IN  IF hits = {} THEN NoneStr
        ELSE candidates[CHOOSE i \in hits : \A j \in hits : i <= j]

_resolve_import(module, source_path, file_paths) ==
    IF StartsWith(module, <<".">>)
    THEN LET two        == StartsWith(module, <<".", ".">>)
             source_dir == IF two THEN ParentPath(ParentPath(source_path))
                           ELSE ParentPath(source_path)
             rest       == LStripSlash(DropChars(module, IF two THEN 2 ELSE 1))
             base       == source_dir \o <<"/">> \o rest
         IN  FirstFound(<<NormPath(base \o <<".", "t", "s">>),
                          NormPath(base \o <<".", "t", "s", "x">>),
                          NormPath(base \o <<".", "j", "s">>),
                          NormPath(base \o <<"/", "i", "n", "d", "e", "x", ".", "t", "s">>),
                          NormPath(base \o <<"/", "i", "n", "d", "e", "x", ".", "t", "s", "x">>)>>,
                        file_paths)
    ELSE LET path_from_dots == Replace(module, <<".">>, <<"/">>)
         IN  FirstFound(<<path_from_dots \o <<".", "p", "y">>,
                          path_from_dots \o <<"/", "_", "_", "i", "n", "i", "t", "_", "_", ".", "p", "y">>,
                          path_from_dots \o <<".", "t", "s">>,
                          path_from_dots \o <<".", "t", "s", "x">>>>,
                        file_paths)

----------------------------------------------------------------------------
(* graph_builder.py: build_graph *)

RECURSIVE Concat(_)
\* the elements of a sequence of sequences, in order
Concat(seqs) == IF seqs = <<>> THEN <<>> ELSE Head(seqs) \o Concat(Tail(seqs))

\* as FirstOccurrences, but nothing is left out
AllOccurrences(seq) == seq

\* the first occurrence of every element, in order
FirstOccurrences(seq) ==
    LET keep == {i \in DOMAIN seq : \A j \in 1..(i - 1) : seq[j] # seq[i]}
        RECURSIVE from(_)
        from(i) == IF i > Len(seq) THEN <<>>
                   ELSE (IF i \in keep THEN <<seq[i]>> ELSE <<>>) \o from(i + 1)
    IN  from(1)

\* lines 26-51: the directories above the files, each once, in the order they are met;
\* entry [parts, i] is the directory Path(*parts[:i])
SeenDirs(files) ==
    FirstOccurrences(
        Concat([k \in DOMAIN files |->
                   LET parts == PathParts(files[k].path)
                   IN  [i \in 1..(Len(parts) - 1) |-> SubSeq(parts, 1, i)]]))

DirNode(parts) ==
    LET dir_path == JoinParts(parts)
    IN  [id                |-> <<"dir:">> \o dir_path,
         type              |-> "directory",
         name              |-> parts[Len(parts)],
         file_path         |-> dir_path,
         language          |-> "",
         lines_of_code     |-> 0,
         abstraction_level |-> _get_abstraction_level(dir_path),
         export_count      |-> Missing,
         parent            |-> IF Len(parts) > 1
                               THEN <<"dir:">> \o JoinParts(SubSeq(parts, 1, Len(parts) - 1))
                               ELSE NoneStr]

ContainsEdge(from, to) == [from |-> from, to |-> to, type |-> "contains", weight |-> 1]

\* lines 44-51: the contains edge of a directory that is not at the top
DirEdges(dirs) ==
    LET nested == SelectSeq(dirs, LAMBDA parts : Len(parts) > 1)
    IN  [i \in DOMAIN nested |->
            ContainsEdge(<<"dir:">> \o JoinParts(SubSeq(nested[i], 1, Len(nested[i]) - 1)),
                         <<"dir:">> \o JoinParts(nested[i]))]

\* lines 60-66: the parser is chosen by the language; a discovered file always has one
ParseFile(f) ==
    IF f.language = "python" THEN parse_python_file(f.ast, f.path)
    ELSE parse_typescript_file(f.ast, f.path, f.language)

\* lines 69-105: the file node, then its declarations with language, level and parent set
FileNodes(f, parse_result) ==
    LET file_id     == <<"file:">> \o f.path
        abstraction == _get_abstraction_level(f.path)
    IN  <<[id                |-> file_id,
           type              |-> "file",
           name              |-> FileName(f.path),
           file_path         |-> f.path,
           language          |-> f.language,
           lines_of_code     |-> parse_result.lines_of_code,
           abstraction_level |-> abstraction,
           export_count      |-> Len(parse_result.nodes),
           parent            |-> <<"dir:">> \o ParentPath(f.path)]>>
        \o [i \in DOMAIN parse_result.nodes |->
               [id                |-> parse_result.nodes[i].id,
                type              |-> parse_result.nodes[i].type,
                name              |-> parse_result.nodes[i].name,
                file_path         |-> parse_result.nodes[i].file_path,
                language          |-> f.language,
                lines_of_code     |-> parse_result.nodes[i].lines_of_code,
                abstraction_level |-> abstraction,
                export_count      |-> Missing,
                parent            |-> file_id]]

\* as FileEdges, but without the edges from the file to its declarations
FileEdgesNoDeclarations(f, parse_result) ==
    <<ContainsEdge(<<"dir:">> \o ParentPath(f.path), <<"file:">> \o f.path)>>

\* lines 84-105: directory -> file, then file -> declaration, one for every declaration
FileEdges(f, parse_result) ==
    <<ContainsEdge(<<"dir:">> \o ParentPath(f.path), <<"file:">> \o f.path)>>
    \o [i \in DOMAIN parse_result.nodes |->
           ContainsEdge(<<"file:">> \o f.path, parse_result.nodes[i].id)]

\* {f["path"] for f in files}
FilePaths(files) == {files[k].path : k \in DOMAIN files}

\* as ImportWeight, but without "or 1"
ImportWeightLen(imp) == Len(imp.names)

\* len(imp.get("names", [])) or 1
ImportWeight(imp) == IF Len(imp.names) = 0 THEN 1 ELSE Len(imp.names)

\* _build_import_edges: one edge for every import whose module resolves
ImportEdges(files, results) ==
    Concat([k \in DOMAIN files |->
        LET resolved == SelectSeq(results[k].imports,
                            LAMBDA imp : _resolve_import(imp.module, files[k].path,
                                                         FilePaths(files)) # NoneStr)
        IN  [i \in DOMAIN resolved |->
                [from   |-> <<"file:">> \o files[k].path,
                 to     |-> <<"file:">> \o _resolve_import(resolved[i].module, files[k].path,
                                                           FilePaths(files)),
                 type   |-> "imports",
                 weight |-> ImportWeight(resolved[i])]]])

\* lines 180-186: symbols[name] = id over the function nodes of a file; None for no entry
SymbolOf(result, name) ==
    LET hits == {i \in DOMAIN result.nodes :
                    result.nodes[i].type = "function" /\ result.nodes[i].name = name}
    IN  IF hits = {} THEN NoneStr
        ELSE result.nodes[CHOOSE i \in hits : \A j \in hits : j <= i].id

\* lines 189-197: import_map[name], the file of the last resolved import that names it
ImportedFrom(result, source_path, file_paths, name) ==
    LET binds == {i \in DOMAIN result.imports :
                     /\ _resolve_import(result.imports[i].module, source_path, file_paths)
                            # NoneStr
                     /\ \E j \in DOMAIN result.imports[i].names :
                            result.imports[i].names[j] = name}
    IN  IF binds = {} THEN NoneStr
        ELSE _resolve_import(result.imports[CHOOSE i \in binds : \A j \in binds : j <= i].module,
                             source_path, file_paths)

\* file_symbols.get(target_file, {}): the parse result of that path
ResultOf(files, results, path) == results[CHOOSE k \in DOMAIN files : files[k].path = path]

\* lines 211-222: the target of one call name, None when there is none
CallTarget(files, results, k, caller_id, call_name) ==
    LET local  == SymbolOf(results[k], call_name)
        source == ImportedFrom(results[k], files[k].path, FilePaths(files), call_name)
    IN  IF local # NoneStr /\ local # caller_id THEN local
        ELSE IF source # NoneStr
        THEN SymbolOf(ResultOf(files, results, source), call_name)
        ELSE NoneStr

\* _build_call_edges: the (caller, target) pairs in the order they are met, each once
CallEdges(files, results) ==
    LET pairs == Concat([k \in DOMAIN files |->
            Concat([n \in DOMAIN results[k].nodes |->
                IF results[k].nodes[n].type # "function" THEN <<>>
                ELSE LET node == results[k].nodes[n]
                         hits == SelectSeq(node.calls,
                                     LAMBDA c : CallTarget(files, results, k, node.id, c)
                                                    # NoneStr)
                     IN  [i \in DOMAIN hits |->
                             <<node.id, CallTarget(files, results, k, node.id, hits[i])>>]])])
        seen_call_edges == FirstOccurrences(pairs)
    IN  [i \in DOMAIN seen_call_edges |->
            [from |-> seen_call_edges[i][1], to |-> seen_call_edges[i][2],
             type |-> "calls", weight |-> 1]]

\* build_graph(root), root given as the files below it
build_graph(root) ==
    LET files   == discover_files(root)
        dirs    == SeenDirs(files)
        results == [k \in DOMAIN files |-> ParseFile(files[k])]
    IN  [nodes |-> [i \in DOMAIN dirs |-> DirNode(dirs[i])]
                   \o Concat([k \in DOMAIN files |-> FileNodes(files[k], results[k])]),
         edges |-> DirEdges(dirs)
                   \o Concat([k \in DOMAIN files |-> FileEdges(files[k], results[k])])
                   \o ImportEdges(files, results)
                   \o CallEdges(files, results)]

----------------------------------------------------------------------------
(* Inputs of compute_diff *)

MaxNodes == 3

MaxEdges == 2

DirA == <<"dir:", "a">>

FileA == <<"file:", "a">>

FuncA == <<"func:", "a">>

ClassA == <<"class:", "a">>

\* the parent id the builder gives a file of the root directory; no node has this id
DirRoot == <<"dir:", ".">>

NodeIds == {DirA, FileA, FuncA, ClassA}

NodeNames == {<<"a">>, <<"b">>}

NoDiff == [meta |-> <<>>]

NoGraph == [nodes |-> <<>>, edges |-> <<>>]

TypeOfId(id) ==
    IF Head(id) = "dir:" THEN "directory"
    ELSE IF Head(id) = "func:" THEN "function"
    ELSE IF Head(id) = "class:" THEN "class"
    ELSE "file"

MakeNode(id, name, parent, loc, exports, level) ==
    [id                |-> id,
     type              |-> TypeOfId(id),
     name              |-> name,
     file_path         |-> Tail(id),
     language          |-> IF Head(id) = "dir:" THEN "" ELSE "python",
     lines_of_code     |-> loc,
     abstraction_level |-> level,
     export_count      |-> exports,
     parent            |-> parent]

\* Containment as the builder nests it: a directory holds files, a file holds declarations.
ParentChoices(id) ==
    IF id = DirA THEN {NoneStr}
    ELSE IF id = FileA THEN {NoneStr, DirA}
    ELSE IF id = FuncA THEN {NoneStr, DirA, FileA}
    ELSE {NoneStr, FileA}

\* a node of that id, or none
StructChoices(id) ==
    {<<>>} \cup {<<MakeNode(id, nm, p, 1, 1, 1)>> : nm \in NodeNames, p \in ParentChoices(id)}

\* Graphs that differ in which nodes exist, how they nest and what they are called.
StructGraphs ==
    {g \in {[nodes |-> c1 \o c2 \o c3 \o c4, edges |-> <<>>] :
                c1 \in StructChoices(DirA), c2 \in StructChoices(FileA),
                c3 \in StructChoices(FuncA), c4 \in StructChoices(ClassA)} :
        Len(g.nodes) <= MaxNodes}

FieldValues == {Missing, PyNone, 1, 2}

\* Graphs of a directory and a file that differ in the file's fields.
FieldGraphs ==
    {[nodes |-> <<MakeNode(DirA, <<"a">>, NoneStr, 1, 1, 1),
                  [MakeNode(FileA, nm, p, loc, ex, lvl) EXCEPT !.type = ty, !.file_path = fp]>>,
      edges |-> <<>>] :
        loc \in FieldValues, ex \in FieldValues \ {Missing}, lvl \in FieldValues \ {Missing},
        nm \in {<<"a">>}, p \in {DirA}, ty \in {"file", "class"}, fp \in {<<"a">>, <<"b">>}}

EdgeChoices ==
    {[from |-> e[1], to |-> e[2], type |-> ty, weight |-> w] :
        e \in {<<DirA, FileA>>, <<FileA, DirA>>}, ty \in {"imports", "calls"}, w \in {1, 2}}
    \ {[from |-> FileA, to |-> DirA, type |-> "calls", weight |-> w] : w \in {1, 2}}

EdgeLists == UNION {[1..n -> EdgeChoices] : n \in 0..MaxEdges}

\* Graphs that differ in their edges (and in whether the file exists).
EdgeGraphs ==
    {[nodes |-> <<MakeNode(DirA, <<"a">>, NoneStr, 1, 1, 1)>> \o c, edges |-> es] :
        c \in {<<>>, <<MakeNode(FileA, <<"a">>, DirA, 1, 1, 1)>>}, es \in EdgeLists}

\* Node lists in which an id occurs twice.
DuplicateGraphs ==
    {[nodes |-> <<MakeNode(FileA, <<"a">>, NoneStr, l1, 1, 1), MakeNode(DirA, <<"a">>, NoneStr, 1, 1, 1),
                  MakeNode(FileA, nm, p, l2, 1, 1)>>,
      edges |-> <<>>] :
        l1 \in {1, 2}, l2 \in {1, 2}, nm \in NodeNames, p \in {NoneStr, DirA}}

\* Graphs of a file of level 2 with declarations of level 0, as a file below models/,
\* types/ or schemas/ gets them, and a calls edge between the two declarations.
LevelGraphs ==
    {[nodes |-> <<MakeNode(FileA, <<"a">>, NoneStr, 1, 1, 2)>> \o c1 \o c2, edges |-> es] :
        c1 \in {<<>>} \cup {<<MakeNode(FuncA, <<"a">>, FileA, loc, Missing, 0)>> : loc \in {1, 2}},
        c2 \in {<<>>, <<MakeNode(ClassA, <<"b">>, FileA, 1, Missing, 0)>>},
        es \in {<<>>, <<[from |-> FuncA, to |-> ClassA, type |-> "calls", weight |-> 1]>>}}

UniqueIds(g) == \A i, j \in DOMAIN g.nodes : g.nodes[i].id = g.nodes[j].id => i = j

PlanIdle ==
    /\ objs = <<>>
    /\ node_lists = <<>>
    /\ edge_lists = <<>>
    /\ graph = [nodes |-> 0, edges |-> 0]
    /\ modified = [nodes |-> 0, edges |-> 0]
    /\ node_index = <<>>
    /\ plan = [name |-> "", operations |-> <<>>]

BuildIdle ==
    /\ tree = <<>>
    /\ built = [nodes |-> <<>>, edges |-> <<>>]

Init ==
    /\ pc = "input"
    /\ \/ graph_a \in StructGraphs /\ graph_b \in StructGraphs
       \/ graph_a \in FieldGraphs /\ graph_b \in FieldGraphs
       \/ graph_a \in EdgeGraphs /\ graph_b \in EdgeGraphs
       \/ graph_a \in DuplicateGraphs /\ graph_b \in DuplicateGraphs
       \/ graph_a \in LevelGraphs /\ graph_b \in LevelGraphs
    /\ diff = NoDiff
    /\ PlanIdle
    /\ BuildIdle

\* compute_diff(graph_a, graph_b): meta is None, so the diff carries {}
ComputeDiff ==
    /\ pc = "input"
    /\ diff' \in compute_diff(graph_a, graph_b, <<>>)
    /\ pc' = "done"
    /\ UNCHANGED <<graph_a, graph_b, objs, node_lists, edge_lists, graph, modified,
                   node_index, plan, tree, built>>

Next == ComputeDiff

Spec == Init /\ [][Next]_vars

----------------------------------------------------------------------------
(* Inputs of apply_plan *)

MaxOps == 2
MaxNameLen == 1

PlanA == <<"plan:", "a">>

\* every sequence of at most n elements of S
SeqsUpTo(S, n) == UNION {[1..k -> S] : k \in 0..n}

\* graphs as build_graph lays them out: directories, then files; a root-level file has
\* parent "dir:." and a contains edge from it, and no node has that id
PlanNodeChoices ==
    {d \o f \o p :
        d \in {<<>>, <<MakeNode(DirA, <<"a">>, NoneStr, 0, Missing, 1)>>},
        f \in {<<>>} \cup {<<MakeNode(FileA, <<"a">>, par, 1, 0, lvl)>> :
                              par \in {DirA, DirRoot}, lvl \in {1, 2}},
        p \in {<<>>, <<MakeNode(PlanA, <<"a">>, NoneStr, 0, 0, 2)>>}}

PlanEdgeChoices ==
    <<[from |-> DirA, to |-> FileA, type |-> "contains", weight |-> 1],
      [from |-> DirRoot, to |-> FileA, type |-> "contains", weight |-> 1],
      [from |-> FileA, to |-> DirA, type |-> "imports", weight |-> 2],
      [from |-> FileA, to |-> PlanA, type |-> "imports", weight |-> 1]>>

\* the sublists of PlanEdgeChoices, in its order, of at most MaxEdges edges
PlanEdgeLists ==
    {[i \in 1..Len(pick) |-> PlanEdgeChoices[pick[i]]] :
        pick \in {q \in SeqsUpTo(DOMAIN PlanEdgeChoices, MaxEdges) :
                      \A i \in 1..(Len(q) - 1) : q[i] < q[i + 1]}}

PlanGraphs ==
    {g \in [nodes : PlanNodeChoices, edges : PlanEdgeLists] :
        \A i \in DOMAIN g.edges :
            {g.edges[i].from, g.edges[i].to} \subseteq IdsOf(g.nodes) \cup {DirRoot}}

NoOp ==
    [keys |-> {}, op |-> "", name |-> <<>>, layer |-> "", depends_on |-> <<>>,
     id |-> <<>>, to_layer |-> ""]

\* stands for an operation without "depends_on"
NoDependsOn == <<NoneStr>>

AddOp(name, layer, depends_on) ==
    [NoOp EXCEPT !.keys = {"op", "name"} \cup (IF layer = "" THEN {} ELSE {"layer"})
                          \cup (IF depends_on = NoDependsOn THEN {} ELSE {"depends_on"}),
                 !.op = "add", !.name = name, !.layer = layer,
                 !.depends_on = IF depends_on = NoDependsOn THEN <<>> ELSE depends_on]

RemoveOp(id) == [NoOp EXCEPT !.keys = {"op", "id"}, !.op = "remove", !.id = id]

MoveOp(id, to_layer) ==
    [NoOp EXCEPT !.keys = {"op", "id"} \cup (IF to_layer = "" THEN {} ELSE {"to_layer"}),
                 !.op = "move", !.id = id, !.to_layer = to_layer]

\* operations that lack a key the engine reads, and one whose "op" it does not know
MalformedOps ==
    {NoOp,
     [NoOp EXCEPT !.keys = {"op", "layer"}, !.op = "add", !.layer = "C1"],
     [NoOp EXCEPT !.keys = {"op"}, !.op = "remove"],
     [NoOp EXCEPT !.keys = {"op", "to_layer"}, !.op = "move", !.to_layer = "C1"]}

UnknownOp == [NoOp EXCEPT !.keys = {"op", "id"}, !.op = "rename", !.id = FileA]

PlanNames == SeqsUpTo({"A", "a", " ", "_"}, MaxNameLen) \ {<<>>}

\* "" stands for an operation without the key
Layers == {"", "C1", "C2", "C3", "C9"}

DependsOnChoices == {NoDependsOn, <<FileA>>, <<FileA, DirRoot>>, <<PlanA, DirA, PlanA>>}

OpIds == {DirA, FileA, DirRoot, PlanA}

\* the operations of the one-operation plans
SingleOps ==
    {AddOp(n, l, d) : n \in PlanNames, l \in Layers, d \in DependsOnChoices}
    \cup {RemoveOp(id) : id \in OpIds}
    \cup {MoveOp(id, l) : id \in OpIds, l \in Layers}
    \cup MalformedOps \cup {UnknownOp}

\* the operations of the longer plans
SequenceOps ==
    {AddOp(<<"A">>, "", <<FileA>>), AddOp(<<"a">>, "C1", <<PlanA>>),
     RemoveOp(DirA), RemoveOp(FileA), RemoveOp(PlanA),
     MoveOp(FileA, "C1"), MoveOp(PlanA, "C3"),
     [NoOp EXCEPT !.keys = {"op"}, !.op = "remove"], UnknownOp}

Plans ==
    {[name |-> "test", operations |-> ops] :
        ops \in {<<op>> : op \in SingleOps} \cup SeqsUpTo(SequenceOps, MaxOps)}

\* the caller's graph as objects of the heap: a dict of two lists, one dict for each node
InitPlan ==
    /\ pc = "input"
    /\ graph_a = NoGraph
    /\ graph_b = NoGraph
    /\ diff = NoDiff
    /\ \E g \in PlanGraphs :
          /\ objs = g.nodes
          /\ node_lists = <<[i \in DOMAIN g.nodes |-> i]>>
          /\ edge_lists = <<g.edges>>
    /\ graph = [nodes |-> 1, edges |-> 1]
    /\ modified = [nodes |-> 0, edges |-> 0]
    /\ node_index = <<>>
    /\ plan \in Plans
    /\ BuildIdle

NextPlan == ApplyPlan

SpecPlan == InitPlan /\ [][NextPlan]_vars

PlanB == <<"plan:", "b">>

\* graphs without planned nodes
OrderGraphs ==
    {NoGraph,
     [nodes |-> <<MakeNode(FileA, <<"a">>, DirRoot, 1, 0, 1)>>,
      edges |-> <<[from |-> DirRoot, to |-> FileA, type |-> "contains", weight |-> 1]>>],
     [nodes |-> <<MakeNode(DirA, <<"a">>, NoneStr, 0, Missing, 1),
                  MakeNode(FileA, <<"a">>, DirA, 1, 0, 1)>>,
      edges |-> <<[from |-> DirA, to |-> FileA, type |-> "contains", weight |-> 1]>>]}

\* add a; add b, which depends on a and on a file of the graph; and their removals
OrderOps ==
    {AddOp(<<"a">>, "", NoDependsOn), AddOp(<<"b">>, "C1", <<PlanA, FileA>>),
     RemoveOp(PlanA), RemoveOp(PlanB), RemoveOp(FileA)}

OrderPlans == {[name |-> "test", operations |-> ops] : ops \in SeqsUpTo(OrderOps, MaxOps)}

InitOrder ==
    /\ pc = "input"
    /\ graph_a = NoGraph
    /\ graph_b = NoGraph
    /\ diff = NoDiff
    /\ \E g \in OrderGraphs :
          /\ objs = g.nodes
          /\ node_lists = <<[i \in DOMAIN g.nodes |-> i]>>
          /\ edge_lists = <<g.edges>>
    /\ graph = [nodes |-> 1, edges |-> 1]
    /\ modified = [nodes |-> 0, edges |-> 0]
    /\ node_index = <<>>
    /\ plan \in OrderPlans
    /\ BuildIdle

SpecOrder == InitOrder /\ [][NextPlan]_vars

----------------------------------------------------------------------------
(* Inputs of build_graph *)

MaxFiles == 2

Ast(type) ==
    [type |-> type, func |-> "", name |-> NoneStr, obj |-> "", module |-> NoneStr,
     names |-> <<>>, lines |-> 1, children |-> <<>>]

Tree(type, children) == [Ast(type) EXCEPT !.children = children, !.lines = 3]

Named(type, name, children) == [Tree(type, children) EXCEPT !.name = name, !.lines = 2]

\* name(...) with the calls of its arguments below it
CallOf(type, name, children) ==
    [Ast(type) EXCEPT !.func = "identifier", !.name = name, !.children = children]

\* obj.name(...)
CallOn(type, func, obj, name) == [Ast(type) EXCEPT !.func = func, !.obj = obj, !.name = name]

ImportOf(type, module, names) == [Ast(type) EXCEPT !.module = module, !.names = names]

NameF == <<"f">>
NameG == <<"g">>

PyDef(name, body) == Named("function_definition", name, body)

PyCall(name) == CallOf("call", name, <<>>)

\* the modules of the Python files
PyModules ==
    {Tree("module", <<>>),
     \* from a import g / def f(): g()
     Tree("module", <<ImportOf("import_from_statement", <<"a">>, <<NameG>>),
                      PyDef(NameF, <<PyCall(NameG)>>)>>),
     \* def g(): pass / def f(): g(); g(f())
     Tree("module", <<PyDef(NameG, <<>>),
                      PyDef(NameF, <<PyCall(NameG), CallOf("call", NameG, <<PyCall(NameF)>>)>>)>>),
     \* from a import g / def g(): pass / def f(): g()
     Tree("module", <<ImportOf("import_from_statement", <<"a">>, <<NameG>>),
                      PyDef(NameG, <<>>),
                      PyDef(NameF, <<PyCall(NameG)>>)>>),
     \* class c: def g(self): self.f(); cls.f()  def f(self): pass
     Tree("module", <<Named("class_definition", <<"c">>,
                            <<PyDef(NameG, <<CallOn("call", "attribute", "self", NameF),
                                             CallOn("call", "attribute", "cls", NameF)>>),
                              PyDef(NameF, <<>>)>>)>>),
     \* class c: def f(self): g(); f()  / class d: def f(self): pass / def g(): f()
     Tree("module", <<Named("class_definition", <<"c">>,
                            <<PyDef(NameF, <<PyCall(NameG), PyCall(NameF)>>)>>),
                      Named("class_definition", <<"d">>, <<PyDef(NameF, <<>>)>>),
                      PyDef(NameG, <<PyCall(NameF)>>)>>),
     \* from x import g / import d.a / def f(): g()
     Tree("module", <<ImportOf("import_from_statement", <<"x">>, <<NameG>>),
                      ImportOf("import_statement", NoneStr, <<<<"d", ".", "a">>>>),
                      PyDef(NameF, <<PyCall(NameG)>>)>>),
     \* from d.a import f, g / def f(): f(); g()
     Tree("module", <<ImportOf("import_from_statement", <<"d", ".", "a">>, <<NameF, NameG>>),
                      PyDef(NameF, <<PyCall(NameF), PyCall(NameG)>>)>>),
     \* from d.a import g / from a import g / def f(): g()
     Tree("module", <<ImportOf("import_from_statement", <<"d", ".", "a">>, <<NameG>>),
                      ImportOf("import_from_statement", <<"a">>, <<NameG>>),
                      PyDef(NameF, <<PyCall(NameG)>>)>>),
     \* from .b import g / from d.a import * / def f(): m.g()
     Tree("module", <<ImportOf("import_from_statement", <<".", "b">>, <<NameG>>),
                      ImportOf("import_from_statement", <<"d", ".", "a">>, <<>>),
                      PyDef(NameF, <<CallOn("call", "attribute", "m", NameG)>>)>>),
     \* def f(): / def g(): f()
     Tree("module", <<PyDef(NameF, <<PyDef(NameG, <<PyCall(NameF)>>)>>)>>)}

TsFunction(name, body) == Named("function_declaration", name, body)

\* const name = () => { body }
TsArrow(name, body) ==
    Tree("lexical_declaration",
         <<Named("variable_declarator", name, <<Tree("arrow_function", body)>>)>>)

TsCall(name) == CallOf("call_expression", name, <<>>)

\* the programs of the TypeScript files
TsPrograms ==
    {Tree("program", <<>>),
     \* import {g} from './b' / function f() { g() }
     Tree("program", <<ImportOf("import_statement", <<".", "/", "b">>, <<NameG>>),
                       TsFunction(NameF, <<TsCall(NameG)>>)>>),
     \* function g() {} / function f() { this.g() }
     Tree("program", <<TsFunction(NameG, <<>>),
                       TsFunction(NameF, <<CallOn("call_expression", "member_expression",
                                                  "this", NameG)>>)>>),
     \* export function f() { g(); g() } / const g = () => { f() }
     Tree("program", <<Tree("export_statement", <<TsFunction(NameF, <<TsCall(NameG), TsCall(NameG)>>)>>),
                       TsArrow(NameG, <<TsCall(NameF)>>)>>),
     \* export class c { g() { f() } } / interface d {} / export const f = () => { x.g() }
     Tree("program", <<Tree("export_statement",
                            <<Named("class_declaration", <<"c">>,
                                    <<Named("method_definition", NameG, <<TsCall(NameF)>>)>>)>>),
                       Named("interface_declaration", <<"d">>, <<>>),
                       Tree("export_statement",
                            <<TsArrow(NameF, <<CallOn("call_expression", "member_expression",
                                                      "x", NameG)>>)>>)>>),
     \* function f() {} / if (x) { function f() { g() } } / function g() {}
     Tree("program", <<TsFunction(NameF, <<>>),
                       Tree("if_statement", <<TsFunction(NameF, <<TsCall(NameG)>>)>>),
                       TsFunction(NameG, <<>>)>>),
     \* import {g} from '../b' / import {f} from 'd/b' / function f() { g(); f() }
     Tree("program", <<ImportOf("import_statement", <<".", ".", "/", "b">>, <<NameG>>),
                       ImportOf("import_statement", <<"d", "/", "b">>, <<NameF>>),
                       TsFunction(NameF, <<TsCall(NameG), TsCall(NameF)>>)>>)}

\* the paths of the files, in the order of sorted()
SourcePaths ==
    <<<<"a", ".", "p", "y">>,
      <<"b", ".", "t", "s">>,
      <<"d", "/", "a", ".", "p", "y">>,
      <<"d", "/", "b", ".", "t", "s">>,
      <<"d", "/", "e", "/", "a", ".", "p", "y">>,
      <<"d", "i", "s", "t", "/", "a", ".", "p", "y">>,
      <<"r", ".", "m", "d">>>>

\* what the parser of the file's language can return for it
TreesOf(path) ==
    IF Suffix(path) = <<".", "p", "y">> THEN PyModules
    ELSE IF Suffix(path) = <<".", "t", "s">> THEN TsPrograms
    ELSE {Ast("text")}

\* at most MaxFiles files below root
SourceTrees ==
    UNION {{[i \in DOMAIN pick |-> [path |-> SourcePaths[pick[i]], ast |-> asts[i]]] :
                asts \in {q \in [DOMAIN pick -> PyModules \cup TsPrograms \cup {Ast("text")}] :
                             \A i \in DOMAIN pick : q[i] \in TreesOf(SourcePaths[pick[i]])}} :
           pick \in {q \in SeqsUpTo(DOMAIN SourcePaths, MaxFiles) :
                        \A i \in 1..(Len(q) - 1) : q[i] < q[i + 1]}}

InitBuild ==
    /\ pc = "input"
    /\ graph_a = NoGraph
    /\ graph_b = NoGraph
    /\ diff = NoDiff
    /\ PlanIdle
    /\ tree \in SourceTrees
    /\ built = NoGraph

\* build_graph(root)
BuildGraph ==
    /\ pc = "input"
    /\ built' = build_graph(tree)
    /\ pc' = "done"
    /\ UNCHANGED <<graph_a, graph_b, diff, objs, node_lists, edge_lists, graph, modified,
                   node_index, plan, tree>>

NextBuild == BuildGraph

SpecBuild == InitBuild /\ [][NextBuild]_vars

\* directories above a file: none, keywords, a word that is no keyword, and app.js, a
\* directory whose name ends like a source file
LevelDirs ==
    {<<>>, <<"m", "o", "d", "e", "l", "s", "/">>, <<"a", "p", "i", "/">>, <<"d", "/">>,
     <<"a", "p", "i", "/", "m", "o", "d", "e", "l", "s", "/">>,
     <<"d", "/", "t", "y", "p", "e", "s", "/">>, <<"a", "p", "p", ".", "j", "s", "/">>}

\* file names: keywords and other words with each suffix of EXTENSION_MAP
LevelFiles ==
    {<<"m", "a", "i", "n", ".", "p", "y">>, <<"a", ".", "p", "y">>,
     <<"m", "o", "d", "e", "l", "s", ".", "p", "y">>,
     <<"i", "n", "d", "e", "x", ".", "t", "s">>, <<"t", "y", "p", "e", "s", ".", "t", "s">>,
     <<"i", "n", "d", "e", "x", ".", "t", "s", "x">>, <<"A", "p", "p", ".", "t", "s", "x">>,
     <<"i", "n", "d", "e", "x", ".", "j", "s">>, <<"u", "t", "i", "l", "s", ".", "j", "s">>,
     <<"i", "n", "d", "e", "x", ".", "j", "s", "x">>, <<"v", "i", "e", "w", "s", ".", "j", "s", "x">>}

\* one file below root, with nothing declared in it
LevelTrees ==
    {<<[path |-> dir \o file,
        ast  |-> IF Suffix(file) = <<".", "p", "y">> THEN Tree("module", <<>>)
                 ELSE Tree("program", <<>>)]>> :
        dir \in LevelDirs, file \in LevelFiles}

InitLevels ==
    /\ pc = "input"
    /\ graph_a = NoGraph
    /\ graph_b = NoGraph
    /\ diff = NoDiff
    /\ PlanIdle
    /\ tree \in LevelTrees
    /\ built = NoGraph

SpecLevels == InitLevels /\ [][NextBuild]_vars

\* the files that import: at root, one and two directories below it
ImporterPaths ==
    {<<"a", ".", "t", "s">>, <<"d", "/", "a", ".", "t", "s">>,
     <<"d", "/", "e", "/", "a", ".", "t", "s">>}

\* "./b", "../b" and "../../b"
RelativeModules ==
    {<<".", "/", "b">>, <<".", ".", "/", "b">>, <<".", ".", "/", ".", ".", "/", "b">>}

\* the files an import of b can mean, in the order of sorted()
ImportTargets ==
    <<<<"b", ".", "j", "s", "x">>,
      <<"b", ".", "t", "s">>,
      <<"b", "/", "i", "n", "d", "e", "x", ".", "j", "s">>,
      <<"d", "/", "b", ".", "p", "y">>,
      <<"d", "/", "b", ".", "t", "s">>,
      <<"d", "/", "b", ".", "t", "s", "x">>,
      <<"d", "/", "b", "/", "i", "n", "d", "e", "x", ".", "t", "s">>,
      <<"d", "/", "e", "/", "b", ".", "t", "s">>>>

\* a file with one relative import, and at most two of the files it can mean
ImportTrees ==
    {<<[path |-> path,
        ast  |-> Tree("program", <<ImportOf("import_statement", module, <<NameG>>)>>)]>>
       \o [i \in DOMAIN pick |->
              [path |-> ImportTargets[pick[i]],
               ast  |-> IF Suffix(ImportTargets[pick[i]]) = <<".", "p", "y">>
                        THEN Tree("module", <<>>) ELSE Tree("program", <<>>)]] :
        path \in ImporterPaths, module \in RelativeModules,
        pick \in {q \in SeqsUpTo(DOMAIN ImportTargets, 2) :
                     \A i \in 1..(Len(q) - 1) : q[i] < q[i + 1]}}

InitImports ==
    /\ pc = "input"
    /\ graph_a = NoGraph
    /\ graph_b = NoGraph
    /\ diff = NoDiff
    /\ PlanIdle
    /\ tree \in ImportTrees
    /\ built = NoGraph

SpecImports == InitImports /\ [][NextBuild]_vars

----------------------------------------------------------------------------
(* What a returned diff says, and what the two graphs are *)

Returned == pc = "done"

AddedIds == {diff.added_nodes[i].id : i \in DOMAIN diff.added_nodes}

RemovedIds == {diff.removed_nodes[i].id : i \in DOMAIN diff.removed_nodes}

MovedIds == {diff.moved_nodes[i].id : i \in DOMAIN diff.moved_nodes}

MovedOldIds == {diff.moved_nodes[i].old_id : i \in DOMAIN diff.moved_nodes}

ModifiedIds == {diff.modified_nodes[i].id : i \in DOMAIN diff.modified_nodes}

\* the entries of modified_nodes for one id
ModifiedEntries(id) == {i \in DOMAIN diff.modified_nodes : diff.modified_nodes[i].id = id}

AllListsEmpty(d) ==
    /\ d.added_nodes = <<>>
    /\ d.removed_nodes = <<>>
    /\ d.moved_nodes = <<>>
    /\ d.modified_nodes = <<>>
    /\ d.added_edges = <<>>
    /\ d.removed_edges = <<>>

SummaryAllZero(d) ==
    /\ d.summary.added_nodes = 0
    /\ d.summary.removed_nodes = 0
    /\ d.summary.moved_nodes = 0
    /\ d.summary.modified_nodes = 0
    /\ d.summary.added_edges = 0
    /\ d.summary.removed_edges = 0

\* the node of graph g with that id (ids unique)
TheNode(g, id) == CHOOSE n \in Range(g.nodes) : n.id = id

RECURSIVE UpFrom(_, _, _)
\* the ids reached from id by following parent links of graph g upward, one or more steps
UpFrom(g, id, seen) ==
    IF id \notin IdsOf(g.nodes) THEN seen
    ELSE LET p == TheNode(g, id).parent
         IN  IF p = NoneStr \/ p \in seen THEN seen ELSE UpFrom(g, p, seen \cup {p})

AncestorsIn(g, id) == UpFrom(g, id, {}) \cap IdsOf(g.nodes)

\* the graph a node is read from: the target graph when it is there, else the base graph
HomeGraph(id) == IF id \in IdsOf(graph_b.nodes) THEN graph_b ELSE graph_a

RECURSIVE UpHome(_, _)
\* the ids reached from id upward when every node on the way is read from its own graph
UpHome(id, seen) ==
    IF id \notin IdsOf(HomeGraph(id).nodes) THEN seen
    ELSE LET p == TheNode(HomeGraph(id), id).parent
         IN  IF p = NoneStr \/ p \in seen THEN seen ELSE UpHome(p, seen \cup {p})

\* The ancestors of a listed node: up the parent links of the graph it is read from, as
\* far as the nodes on the way have the same parent in the graph they are read from.
AncestorsOf(id) == AncestorsIn(HomeGraph(id), id) \cap UpHome(id, {})

\* nodes of both graphs that the diff lists as neither added, removed nor moved
Uncategorized ==
    (IdsOf(graph_a.nodes) \cap IdsOf(graph_b.nodes))
        \ (AddedIds \cup RemovedIds \cup MovedIds \cup MovedOldIds)

BothUnique == UniqueIds(graph_a) /\ UniqueIds(graph_b)

----------------------------------------------------------------------------
(* Claims about compute_diff *)

\* C1: compute_diff(G, G) returns six empty lists and a summary of zeros, for every
\* graph G, whatever its node list (duplicate ids included) and edge list.
C1_Idempotence ==
    (Returned /\ graph_a = graph_b) => AllListsEmpty(diff) /\ SummaryAllZero(diff)

C1_Witness ==
    /\ Returned
    /\ graph_a = graph_b
    /\ Len(graph_a.nodes) >= 2
    /\ \E i \in DOMAIN graph_a.nodes : graph_a.nodes[i].parent \in IdsOf(graph_a.nodes)

\* C3: with unique ids, every node of A that is absent from B, and every node of A below
\* such a node by A's parent links (still in B or not), is in removed_nodes or is the
\* old_id of a moved_nodes entry.
C3_CascadingRemoval ==
    (Returned /\ BothUnique) =>
        \A id \in IdsOf(graph_a.nodes) :
            (\/ id \notin IdsOf(graph_b.nodes)
             \/ \E r \in AncestorsIn(graph_a, id) : r \notin IdsOf(graph_b.nodes))
            => id \in RemovedIds \cup MovedOldIds

\* a node two levels below a removed node, itself still in B, is reported removed
C3_Witness ==
    /\ Returned
    /\ BothUnique
    /\ \E id \in IdsOf(graph_a.nodes) \cap IdsOf(graph_b.nodes) :
          /\ TheNode(graph_a, id).parent \in IdsOf(graph_b.nodes)
          /\ \E r \in AncestorsIn(graph_a, id) : r \notin IdsOf(graph_b.nodes)
          /\ id \in RemovedIds

\* C4: with unique ids, no id is in more than one of added_nodes, removed_nodes,
\* moved_nodes (as id or old_id) and modified_nodes.
C4_OneCategory ==
    (Returned /\ BothUnique) =>
        /\ AddedIds \cap RemovedIds = {}
        /\ AddedIds \cap (MovedIds \cup MovedOldIds) = {}
        /\ AddedIds \cap ModifiedIds = {}
        /\ RemovedIds \cap (MovedIds \cup MovedOldIds) = {}
        /\ RemovedIds \cap ModifiedIds = {}
        /\ (MovedIds \cup MovedOldIds) \cap ModifiedIds = {}

\* the values of field f that both graphs hold for id, when both are there and differ
FieldDiffers(id, f) ==
    LET va == TheNode(graph_a, id)[f]
        vb == TheNode(graph_b, id)[f]
    IN  va \notin {Missing, PyNone} /\ vb \notin {Missing, PyNone} /\ va # vb

\* C5: with unique ids, a node of both graphs that is not added, removed or moved has a
\* modified_nodes entry with changes f -> [value in A, value in B] for exactly the
\* fields f of lines_of_code, export_count, abstraction_level whose values differ and are
\* both non-null; no other field and no field that is null or absent on a side is reported.
C5_ModifiedFields ==
    (Returned /\ BothUnique) =>
        \A id \in Uncategorized :
            LET D == {f \in {"lines_of_code", "export_count", "abstraction_level"} :
                          FieldDiffers(id, f)}
            IN  IF D # {}
                THEN /\ Cardinality(ModifiedEntries(id)) = 1
                     /\ \A i \in ModifiedEntries(id) :
                           /\ DOMAIN diff.modified_nodes[i].changes = D
                           /\ \A f \in D : diff.modified_nodes[i].changes[f]
                                = <<TheNode(graph_a, id)[f], TheNode(graph_b, id)[f]>>
                ELSE \A i \in ModifiedEntries(id) :
                        DOMAIN diff.modified_nodes[i].changes = {"children_changed"}

\* one field reported, one field withheld because a side is null, and the type differs
C5_Witness ==
    /\ Returned
    /\ BothUnique
    /\ \E id \in Uncategorized :
          /\ FieldDiffers(id, "lines_of_code")
          /\ TheNode(graph_a, id).abstraction_level = PyNone
          /\ TheNode(graph_b, id).abstraction_level = 2
          /\ TheNode(graph_a, id).type # TheNode(graph_b, id).type
          /\ \E i \in ModifiedEntries(id) :
                DOMAIN diff.modified_nodes[i].changes = {"lines_of_code"}

\* C6: with unique ids, for every node listed as added, removed or modified, every
\* ancestor up the parent links of its graph that is in both graphs and not itself added, removed or
\* moved is in modified_nodes; an ancestor listed only for that carries exactly
\* {children_changed: [true, true]}, and no id has two entries.
C6_BubbleToRoot ==
    (Returned /\ BothUnique) =>
        /\ \A c \in AddedIds \cup RemovedIds \cup ModifiedIds :
              \A p \in AncestorsOf(c) : p \in Uncategorized => p \in ModifiedIds
        /\ \A id \in ModifiedIds :
              /\ Cardinality(ModifiedEntries(id)) = 1
              /\ (\A f \in ComparedFields : ~FieldDiffers(id, f)) =>
                    \A i \in ModifiedEntries(id) :
                        diff.modified_nodes[i].changes
                            = [f \in {"children_changed"} |-> <<TRUE, TRUE>>]

\* the triples of a diff's edge list
ListedTriples(es) == {<<es[i].from, es[i].to, es[i].type>> : i \in DOMAIN es}

TriplesOfGraph(g) ==
    {t \in {<<e.from, e.to, e.type>> : e \in Range(g.edges)} : TRUE}

----------------------------------------------------------------------------
(* apply_plan *)

PlanReturned == pc = "done" /\ graph.nodes # 0

\* the plan has one operation, and this is it
SingleOp == plan.operations[1]

IsSingle(kind, needed) ==
    /\ Len(plan.operations) = 1
    /\ SingleOp.op = kind
    /\ needed \subseteq SingleOp.keys

\* the caller's graph and the working copy, read through the heap
CallerGraph == Deref(Heap, graph)

WorkingCopy == Deref(Heap, modified)

\* C2: whatever the plan, and also when apply_plan raises part-way, the caller's graph is
\* the same dict of the same two lists after the call, and its node list and edge list
\* have the same length, order and field values as before.
C2_OriginalUntouched == [][graph' = graph /\ CallerGraph' = CallerGraph]_vars

\* a plan that changed the working copy and then raised
C2_Witness ==
    /\ pc = "raised"
    /\ Len(plan.operations) > 1
    /\ WorkingCopy # CallerGraph

\* the id, and the level, that the text of the claim gives to the added node
ExpectedId(name) ==
    <<"plan:">> \o [i \in DOMAIN name |->
                       CASE name[i] = "A" -> "a"
                         [] name[i] = " " -> "_"
                         [] OTHER -> name[i]]

ExpectedLevel(op) ==
    IF "layer" \notin op.keys THEN 2
    ELSE CASE op.layer = "C1" -> 3
           [] op.layer = "C2" -> 2
           [] op.layer = "C3" -> 1
           [] OTHER -> 2

\* C8: one add operation on a graph with unique ids that has no node with the new id:
\* added_nodes is the one new node (id, name, lines_of_code 0, level by the layer),
\* added_edges has one imports edge from it to every depends_on id that is a node of G,
\* has nothing else and no edge to an id that is no node of the resulting graph, and the
\* other four lists are empty.
C8_SingleAdd ==
    (/\ PlanReturned
     /\ IsSingle("add", {"op", "name"})
     /\ UniqueIds(graph_a)
     /\ ExpectedId(SingleOp.name) \notin IdsOf(graph_a.nodes))
    => LET new_id == ExpectedId(SingleOp.name)
           deps   == IF "depends_on" \in SingleOp.keys THEN Range(SingleOp.depends_on) ELSE {}
       IN  /\ diff.added_nodes = <<[id                |-> new_id,
                                    name              |-> SingleOp.name,
                                    abstraction_level |-> ExpectedLevel(SingleOp),
                                    lines_of_code     |-> 0]>>
           /\ \A d \in deps \cap IdsOf(graph_a.nodes) :
                 Cardinality({i \in DOMAIN diff.added_edges :
                                 diff.added_edges[i]
                                     = [from |-> new_id, to |-> d, type |-> "imports"]}) = 1
           /\ \A i \in DOMAIN diff.added_edges :
                 /\ diff.added_edges[i].from = new_id
                 /\ diff.added_edges[i].type = "imports"
                 /\ diff.added_edges[i].to \in deps
                 /\ diff.added_edges[i].to \in IdsOf(graph_b.nodes)
           /\ diff.removed_nodes = <<>>
           /\ diff.moved_nodes = <<>>
           /\ diff.modified_nodes = <<>>
           /\ diff.removed_edges = <<>>

\* add "A" in layer C3, depending on a node of G and on an id that is no node
C8_Witness ==
    /\ PlanReturned
    /\ IsSingle("add", {"op", "name", "layer", "depends_on"})
    /\ SingleOp.name = <<"A">>
    /\ SingleOp.layer = "C3"
    /\ SingleOp.depends_on = <<FileA, DirRoot>>
    /\ FileA \in IdsOf(graph_a.nodes)
    /\ PlanA \notin IdsOf(graph_a.nodes)
    /\ Len(diff.added_nodes) = 1
    /\ Len(diff.added_edges) = 1

\* C9: one remove operation that names a node X of a graph with unique ids: the working
\* copy is G without node X and without the edges that have X as an endpoint;
\* removed_nodes lists X and X's descendants by parent links, removed_edges is the triples
\* of G's edges with X as an endpoint, and added_nodes, moved_nodes, added_edges are empty.
C9_SingleRemove ==
    (/\ PlanReturned
     /\ IsSingle("remove", {"op", "id"})
     /\ UniqueIds(graph_a)
     /\ SingleOp.id \in IdsOf(graph_a.nodes))
    => LET X == SingleOp.id
       IN  /\ graph_b.nodes = SelectSeq(graph_a.nodes, LAMBDA n : n.id # X)
           /\ graph_b.edges = SelectSeq(graph_a.edges, LAMBDA e : e.from # X /\ e.to # X)
           /\ RemovedIds = {X} \cup {id \in IdsOf(graph_a.nodes) : X \in AncestorsIn(graph_a, id)}
           /\ Len(diff.removed_nodes) = Cardinality(RemovedIds)
           /\ ListedTriples(diff.removed_edges)
                 = {t \in TriplesOfGraph(graph_a) : t[1] = X \/ t[2] = X}
           /\ Len(diff.removed_edges) = Cardinality(ListedTriples(diff.removed_edges))
           /\ diff.added_nodes = <<>>
           /\ diff.moved_nodes = <<>>
           /\ diff.added_edges = <<>>

\* a directory with a file below it is removed; one edge of G ends at it, another does not
C9_Witness ==
    /\ PlanReturned
    /\ IsSingle("remove", {"op", "id"})
    /\ SingleOp.id = DirA
    /\ RemovedIds = {DirA, FileA}
    /\ Len(graph_a.edges) = 2
    /\ Len(graph_b.edges) = 1
    /\ Len(diff.removed_edges) = 1

\* an operation that is a remove or a move of an id that is no node of the caller's graph
NamesUnknownId(op) ==
    /\ op.op \in {"remove", "move"}
    /\ {"op", "id"} \subseteq op.keys
    /\ op.id \notin IdsOf(CallerGraph.nodes)

\* C10: a plan made only of remove and move operations that name ids that are no nodes of
\* G does not raise, leaves the node list and the edge list of the working copy as G's,
\* and yields a diff with six empty lists and a summary of zeros.
C10_UnknownIdNoOp ==
    (/\ pc # "input"
     /\ graph.nodes # 0
     /\ \A i \in DOMAIN plan.operations : NamesUnknownId(plan.operations[i]))
    => /\ pc = "done"
       /\ WorkingCopy = CallerGraph
       /\ AllListsEmpty(diff)
       /\ SummaryAllZero(diff)

\* the level the text of the claim gives to a move operation
ExpectedMoveLevel(op) ==
    IF "to_layer" \notin op.keys THEN 2
    ELSE CASE op.to_layer = "C1" -> 3
           [] op.to_layer = "C2" -> 2
           [] op.to_layer = "C3" -> 1
           [] OTHER -> 2

\* C11: one move operation that names a node X of a graph with unique ids: the working
\* copy is G with X's abstraction_level set to the level of the layer and nothing else
\* changed; X is in modified_nodes, with changes {abstraction_level: [old, new]}, exactly
\* when old and new differ; nothing is added, removed or moved and no edge changes.
C11_SingleMove ==
    (/\ PlanReturned
     /\ IsSingle("move", {"op", "id"})
     /\ UniqueIds(graph_a)
     /\ SingleOp.id \in IdsOf(graph_a.nodes))
    => LET X     == SingleOp.id
           old   == TheNode(graph_a, X).abstraction_level
           new   == ExpectedMoveLevel(SingleOp)
       IN  /\ graph_b.edges = graph_a.edges
           /\ graph_b.nodes = [i \in DOMAIN graph_a.nodes |->
                                 IF graph_a.nodes[i].id = X
                                 THEN [graph_a.nodes[i] EXCEPT !.abstraction_level = new]
                                 ELSE graph_a.nodes[i]]
           /\ (X \in ModifiedIds) <=> (old # new)
           /\ \A i \in ModifiedEntries(X) :
                 diff.modified_nodes[i].changes
                     = [f \in {"abstraction_level"} |-> <<old, new>>]
           /\ Cardinality(ModifiedEntries(X)) <= 1
           /\ diff.added_nodes = <<>>
           /\ diff.removed_nodes = <<>>
           /\ diff.moved_nodes = <<>>
           /\ diff.added_edges = <<>>
           /\ diff.removed_edges = <<>>

\* a file of level 1 below a directory is moved to layer C1
C11_Witness ==
    /\ PlanReturned
    /\ IsSingle("move", {"op", "id", "to_layer"})
    /\ SingleOp.id = FileA
    /\ SingleOp.to_layer = "C1"
    /\ DirA \in IdsOf(graph_a.nodes)
    /\ FileA \in IdsOf(graph_a.nodes)
    /\ TheNode(graph_a, FileA).abstraction_level = 1
    /\ TheNode(graph_b, FileA).abstraction_level = 3
    /\ FileA \in ModifiedIds

\* an operation that lacks a field the engine needs
Malformed(op) ==
    \/ "op" \notin op.keys
    \/ op.op = "add" /\ "name" \notin op.keys
    \/ op.op \in {"remove", "move"} /\ "id" \notin op.keys

\* C12: a plan with an operation that has no "op", an add without "name", or a remove or
\* move without "id", makes apply_plan raise: no diff is returned, whatever well-formed
\* operations came first, and the caller's graph is as it was.
C12_MalformedRaises ==
    [][(\E i \in DOMAIN plan.operations : Malformed(plan.operations[i]))
          => /\ pc' = "raised"
             /\ diff' = NoDiff
             /\ CallerGraph' = CallerGraph]_vars

\* a well-formed add that was applied to the working copy, then a remove without id
C12_Witness ==
    /\ pc = "raised"
    /\ Len(plan.operations) = 2
    /\ ~Malformed(plan.operations[1])
    /\ plan.operations[1].op = "add"
    /\ Malformed(plan.operations[2])
    /\ Len(WorkingCopy.nodes) = Len(CallerGraph.nodes) + 1
    /\ diff = NoDiff

\* C26: for a graph with pairwise distinct node ids and any plan, the working graph that
\* apply_plan passes to compute_diff has pairwise distinct node ids.
C26_PlanKeepsIdsUnique == (PlanReturned /\ UniqueIds(graph_a)) => UniqueIds(graph_b)

\* the operations before (after) the i-th that create or remove the node id
TouchesBefore(i, id) ==
    {j \in 1..(i - 1) :
        \/ plan.operations[j].op = "add" /\ ExpectedId(plan.operations[j].name) = id
        \/ plan.operations[j].op = "remove" /\ plan.operations[j].id = id}

RemovedAfter(i, id) ==
    \E j \in (i + 1)..Len(plan.operations) :
        plan.operations[j].op = "remove" /\ plan.operations[j].id = id

\* id is a node when the i-th operation starts: the last operation before it that
\* concerns id added it, or none concerns it and the caller's graph has it
PresentBefore(i, id) ==
    IF TouchesBefore(i, id) = {} THEN id \in IdsOf(graph_a.nodes)
    ELSE plan.operations[CHOOSE j \in TouchesBefore(i, id) :
                             \A k \in TouchesBefore(i, id) : k <= j].op = "add"

\* the edges that the adds of the plan leave: from the new node to every other depends_on
\* id that is a node at that point, unless a later operation removes one of the two
ExpectedPlanEdges ==
    UNION {{<<ExpectedId(plan.operations[i].name), d>> :
               d \in {x \in Range(plan.operations[i].depends_on) :
                         /\ x # ExpectedId(plan.operations[i].name)
                         /\ PresentBefore(i, x)
                         /\ ~RemovedAfter(i, x)
                         /\ ~RemovedAfter(i, ExpectedId(plan.operations[i].name))}} :
           i \in {j \in DOMAIN plan.operations : plan.operations[j].op = "add"}}

\* the ids that an add of the plan creates and a later remove, the last operation that
\* concerns the id, takes away again
AddedThenRemoved ==
    {id \in {ExpectedId(plan.operations[i].name) :
                i \in {j \in DOMAIN plan.operations : plan.operations[j].op = "add"}} :
        /\ id \notin IdsOf(graph_a.nodes)
        /\ ~PresentBefore(Len(plan.operations) + 1, id)}

\* C25: the operations are applied in list order to one working copy: an add gets an
\* imports edge to a depends_on id that an earlier operation added, and none to an id that
\* only a later operation adds or that an earlier operation removed; an add followed by a
\* remove of its id leaves neither the node nor an edge of it in the diff.
C25_ListOrder ==
    PlanReturned =>
        /\ {<<e.from, e.to>> : e \in {x \in Range(diff.added_edges) :
                                         Head(x.from) = "plan:" /\ x.from # x.to}}
               = ExpectedPlanEdges
        /\ \A id \in AddedThenRemoved :
              /\ id \notin AddedIds \cup RemovedIds \cup MovedIds \cup MovedOldIds \cup ModifiedIds
              /\ \A e \in Range(diff.added_edges) \cup Range(diff.removed_edges) :
                    id \notin {e.from, e.to}

\* add a, then add b that depends on a: the diff has the edge from b to a
C25_Witness ==
    /\ PlanReturned
    /\ Len(plan.operations) = 2
    /\ plan.operations[1].op = "add"
    /\ plan.operations[2].op = "add"
    /\ ExpectedId(plan.operations[1].name) \in Range(plan.operations[2].depends_on)
    /\ ExpectedId(plan.operations[1].name) \notin IdsOf(graph_a.nodes)
    /\ \E e \in Range(diff.added_edges) :
          /\ e.from = ExpectedId(plan.operations[2].name)
          /\ e.to = ExpectedId(plan.operations[1].name)

----------------------------------------------------------------------------
(* build_graph *)

BuildReturned == pc = "done"

\* the discovered files and what the parsers return for them
Files == discover_files(tree)

Results == [k \in DOMAIN Files |-> ParseFile(Files[k])]

EdgesOfType(g, type) == SelectSeq(g.edges, LAMBDA e : e.type = type)

\* C13: the ids of the nodes of a built graph are pairwise distinct, also when a file
\* declares a function or class name more than once.
C13_UniqueNodeIds == BuildReturned => UniqueIds(built)

\* C14: in a built graph the from and the to of every edge, and every parent that is not
\* None, is the id of a node of the graph, also for files directly below root.
C14_ReferentiallyClosed ==
    BuildReturned =>
        /\ \A i \in DOMAIN built.edges :
              {built.edges[i].from, built.edges[i].to} \subseteq IdsOf(built.nodes)
        /\ \A i \in DOMAIN built.nodes :
              built.nodes[i].parent # NoneStr => built.nodes[i].parent \in IdsOf(built.nodes)

\* C15: in a built graph there is a contains edge (p, n) exactly when node n has parent p.
C15_ContainsMirrorsParent ==
    BuildReturned =>
        {<<e.from, e.to>> : e \in Range(EdgesOfType(built, "contains"))}
            = {<<n.parent, n.id>> : n \in {m \in Range(built.nodes) : m.parent # NoneStr}}

\* a directory in a directory, a file in a directory and a declaration in a file
C15_Witness ==
    /\ BuildReturned
    /\ \E e1, e2, e3 \in Range(EdgesOfType(built, "contains")) :
          /\ Head(e1.from) = "dir:" /\ Head(e1.to) = "dir:"
          /\ e2.from = e1.to /\ Head(e2.to) = "file:"
          /\ e3.from = e2.to /\ Head(e3.to) = "func:"

\* C16: a built graph has no two calls edges with the same from and to.
C16_CallEdgesOnce ==
    BuildReturned =>
        \A i, j \in DOMAIN built.edges :
            (/\ built.edges[i].type = "calls"
             /\ built.edges[j].type = "calls"
             /\ built.edges[i].from = built.edges[j].from
             /\ built.edges[i].to = built.edges[j].to) => i = j

\* a function that calls the same name twice and has one calls edge to it
C16_Witness ==
    /\ BuildReturned
    /\ \E k \in DOMAIN Files : \E n \in DOMAIN Results[k].nodes :
          LET node == Results[k].nodes[n]
          IN  /\ node.type = "function"
              /\ \E i, j \in DOMAIN node.calls : i # j /\ node.calls[i] = node.calls[j]
              /\ Cardinality({e \in DOMAIN built.edges :
                                 /\ built.edges[e].type = "calls"
                                 /\ built.edges[e].from = node.id}) = 1

\* the same-file functions named c other than the n-th declaration of file k itself
OtherLocal(k, n, c) ==
    {m \in DOMAIN Results[k].nodes :
        /\ m # n
        /\ Results[k].nodes[m].type = "function"
        /\ Results[k].nodes[m].name = c}

\* the imports of file k that bind c and resolve to a discovered file
Binding(k, c) ==
    {i \in DOMAIN Results[k].imports :
        /\ c \in Range(Results[k].imports[i].names)
        /\ _resolve_import(Results[k].imports[i].module, Files[k].path, FilePaths(Files))
               \in FilePaths(Files)}

\* the discovered file that c is bound to in file k: a later import rebinds the name
ImportedFiles(k, c) ==
    {b \in DOMAIN Files :
        \E i \in Binding(k, c) :
            /\ \A j \in Binding(k, c) : j <= i
            /\ _resolve_import(Results[k].imports[i].module, Files[k].path, FilePaths(Files))
                   = Files[b].path}

\* the ids of the functions named c of file b
FunctionsNamed(b, c) ==
    {Results[b].nodes[m].id :
        m \in {i \in DOMAIN Results[b].nodes :
                  Results[b].nodes[i].type = "function" /\ Results[b].nodes[i].name = c}}

\* the targets the calls c of the n-th declaration of file k has
TargetsOf(k, n, c) ==
    IF OtherLocal(k, n, c) # {}
    THEN {Results[k].nodes[m].id : m \in OtherLocal(k, n, c)}
    ELSE UNION {FunctionsNamed(b, c) : b \in ImportedFiles(k, c)}

ExpectedCalls ==
    UNION {UNION {{<<Results[k].nodes[n].id, t>> :
                      t \in UNION {TargetsOf(k, n, c) : c \in Range(Results[k].nodes[n].calls)}} :
                  n \in {m \in DOMAIN Results[k].nodes : Results[k].nodes[m].type = "function"}} :
           k \in DOMAIN Files}

\* C17: a call of name c in function f of file a gives a calls edge to the other function
\* named c of a, else to the function c of the discovered file that the import of a binding c
\* resolves to (the last such import, when several bind c), else no edge.
C17_CallResolution ==
    BuildReturned =>
        {<<e.from, e.to>> : e \in Range(EdgesOfType(built, "calls"))} = ExpectedCalls

\* the imports of file k that resolve to the discovered file b with the given weight
ResolvingImports(k, b, weight) ==
    {i \in DOMAIN Results[k].imports :
        /\ _resolve_import(Results[k].imports[i].module, Files[k].path, FilePaths(Files))
               = Files[b].path
        /\ weight = IF Len(Results[k].imports[i].names) > 1
                    THEN Len(Results[k].imports[i].names) ELSE 1}

FileNodeIds == {n.id : n \in {m \in Range(built.nodes) : m.type = "file"}}

\* C18: every import of a file s that resolves to a discovered file t gives exactly one
\* imports edge from s to t with weight max(1, number of imported names), an import that
\* does not resolve gives none, and every imports edge joins two file nodes of the graph
\* with a weight of at least 1.
C18_ImportEdges ==
    BuildReturned =>
        /\ \A k, b \in DOMAIN Files : \A weight \in 0..4 :
              Cardinality({e \in DOMAIN built.edges :
                              built.edges[e] = [from   |-> <<"file:">> \o Files[k].path,
                                                to     |-> <<"file:">> \o Files[b].path,
                                                type   |-> "imports",
                                                weight |-> weight]})
                  = Cardinality(ResolvingImports(k, b, weight))
        /\ \A e \in Range(EdgesOfType(built, "imports")) :
              /\ {e.from, e.to} \subseteq FileNodeIds
              /\ e.weight >= 1
              /\ \E k, b \in DOMAIN Files :
                    /\ e.from = <<"file:">> \o Files[k].path
                    /\ e.to = <<"file:">> \o Files[b].path
                    /\ e.weight \in 0..4

\* a file with an import without names that resolves, and one that does not resolve
C18_Witness ==
    /\ BuildReturned
    /\ \E k \in DOMAIN Files : \E i, j \in DOMAIN Results[k].imports :
          /\ Len(Results[k].imports[i].names) = 0
          /\ _resolve_import(Results[k].imports[i].module, Files[k].path, FilePaths(Files))
                 \in FilePaths(Files)
          /\ _resolve_import(Results[k].imports[j].module, Files[k].path, FilePaths(Files))
                 = NoneStr
          /\ \E e \in Range(EdgesOfType(built, "imports")) :
                e.from = <<"file:">> \o Files[k].path /\ e.weight = 1

\* a call through the own instance: self or cls in Python, this in TypeScript
OwnInstanceCall(ast, language) ==
    /\ ast.type \in {"call", "call_expression"}
    /\ ast.func \in {"attribute", "member_expression"}
    /\ ast.obj \in (IF language = "python" THEN {"self", "cls"} ELSE {"this"})

\* the tree without its calls through the own instance; their arguments stay
RECURSIVE WithoutOwnCalls(_, _)
WithoutOwnCalls(ast, language) ==
    [ast EXCEPT !.type = IF OwnInstanceCall(ast, language) THEN "expression_statement" ELSE @,
                !.children = [i \in DOMAIN @ |-> WithoutOwnCalls(@[i], language)]]

TreeWithoutOwnCalls ==
    [k \in DOMAIN tree |->
        [tree[k] EXCEPT !.ast = WithoutOwnCalls(@, EXTENSION_MAP(Suffix(tree[k].path)))]]

\* C19: a call through the own instance (self.m(), cls.m(), this.m()) is not recorded in the
\* calls of the function around it, and build_graph emits no calls edge for it: the recorded
\* calls and the calls edges are those of the same tree without these calls.
C19_OwnInstanceCallsSkipped ==
    BuildReturned =>
        /\ \A k \in DOMAIN Files :
              ParseFile(Files[k]).nodes
                  = ParseFile(discover_files(TreeWithoutOwnCalls)[k]).nodes
        /\ EdgesOfType(built, "calls") = EdgesOfType(build_graph(TreeWithoutOwnCalls), "calls")

\* C21: every function node of a built graph has abstraction_level 0, whatever directory
\* or file declares it.
C21_FunctionsAtLevelZero ==
    BuildReturned =>
        \A n \in Range(built.nodes) : n.type = "function" => n.abstraction_level = 0

\* C29: a built graph has no calls edge from a function to itself, also when the function
\* calls its own name and an import binds that name (to the function's own file or another).
C29_NoSelfLoop ==
    BuildReturned => \A e \in Range(EdgesOfType(built, "calls")) : e.from # e.to

\* the suffixes of source files
SourceExtensions ==
    {<<".", "p", "y">>, <<".", "t", "s">>, <<".", "t", "s", "x">>, <<".", "j", "s">>,
     <<".", "j", "s", "x">>}

\* a file name without its source extension
StripExtension(name) ==
    IF Suffix(name) \in SourceExtensions
    THEN SubSeq(name, 1, Len(name) - Len(Suffix(name)))
    ELSE name

\* the level of the first component that is a keyword, 1 when there is none; the last
\* component of a file's path is its name, compared without the extension
LexiconLevel(path, is_file) ==
    LET parts == PathParts(path)
        word(i) == IF is_file /\ i = Len(parts) THEN StripExtension(parts[i]) ELSE parts[i]
        hits  == {i \in DOMAIN parts : word(i) \in Keywords}
    IN  IF hits = {} THEN 1
        ELSE ABSTRACTION_LEVELS(word(CHOOSE i \in hits : \A j \in hits : i <= j))

\* C28: the abstraction_level of a file node and of a directory node is the level of the
\* first component of its own path that is a keyword, directory names taken as they are
\* and the file name without its extension (.py, .ts, .tsx, .js, .jsx), and 1 when no
\* component is a keyword.
C28_LevelOfPath ==
    BuildReturned =>
        \A n \in Range(built.nodes) :
            /\ n.type = "file" => n.abstraction_level = LexiconLevel(n.file_path, TRUE)
            /\ n.type = "directory" => n.abstraction_level = LexiconLevel(n.file_path, FALSE)

\* the number of ".." pieces a sequence of pieces starts with
RECURSIVE LeadingUps(_)
LeadingUps(pieces) ==
    IF pieces # <<>> /\ Head(pieces) = <<".", ".">> THEN 1 + LeadingUps(Tail(pieces)) ELSE 0

\* the discovered files that a relative module specifier means, imported from source_path:
\* the directory of the file with one level removed for every leading "..", then the rest
\* of the specifier with a source extension, or failing that as a directory with an index
\* file; Unresolvable when the specifier climbs above root
RelativeTargets(module, source_path, file_paths) ==
    LET pieces == SplitSlash(module, <<>>)
        n      == LeadingUps(pieces)
        rest   == PathParts(JoinParts(SubSeq(pieces, n + 1, Len(pieces))))
        dir    == PathParts(ParentPath(source_path))
        base   == JoinParts(SubSeq(dir, 1, Len(dir) - n) \o rest)
        direct == {base \o ext : ext \in SourceExtensions} \cap file_paths
        index  == {base \o <<"/", "i", "n", "d", "e", "x">> \o ext : ext \in SourceExtensions}
                      \cap file_paths
    IN  IF n > Len(dir) THEN {}
        ELSE IF direct # {} THEN direct
        ELSE IF index # {} THEN index
        ELSE {NoneStr}

\* C27: a relative import resolves against the directory of the importing file with one
\* level removed for every leading "..": to the discovered file of that name with a source
\* extension, failing that to the index file of the directory of that name, and to no file
\* only when none of these is discovered.
C27_RelativeResolution ==
    BuildReturned =>
        \A k \in DOMAIN Files : \A i \in DOMAIN Results[k].imports :
            LET module  == Results[k].imports[i].module
                targets == RelativeTargets(module, Files[k].path, FilePaths(Files))
            IN  (StartsWith(module, <<".">>) /\ targets # {}) =>
                    /\ _resolve_import(module, Files[k].path, FilePaths(Files)) \in targets
                    /\ \A t \in FilePaths(Files) :
                          (\E e \in Range(EdgesOfType(built, "imports")) :
                              e.from = <<"file:">> \o Files[k].path /\ e.to = <<"file:">> \o t)
                          => t \in targets

----------------------------------------------------------------------------
(* compute_diff and the lowest abstraction level *)

\* the ids of the nodes that have abstraction_level 0 in graph_a or in graph_b
LevelZeroIds ==
    {n.id : n \in {m \in Range(graph_a.nodes) \cup Range(graph_b.nodes) :
                      m.abstraction_level = 0}}

\* C20: a node whose abstraction_level is 0 is in no node list of the diff, and an edge
\* between two nodes of abstraction_level 0 is neither in added_edges nor in removed_edges.
C20_LevelZeroFiltered ==
    Returned =>
        /\ LevelZeroIds \cap (AddedIds \cup RemovedIds \cup MovedIds \cup MovedOldIds
                                 \cup ModifiedIds) = {}
        /\ \A e \in Range(diff.added_edges) \cup Range(diff.removed_edges) :
              ~({e.from, e.to} \subseteq LevelZeroIds)

\* the removed candidates of a name: the nodes of A that the diff lists as removed or as
\* the old side of a move
RemovedCandidates(name) ==
    {id \in RemovedIds \cup MovedOldIds : TheNode(graph_a, id).name = name}

\* C22: move pairing follows sorted id order: the added candidates are taken in ascending
\* id order and each is paired with the removed candidate of its name with the smallest
\* id that is not yet consumed; and every evaluation of compute_diff on the same two
\* graphs returns the same moved_nodes, added_nodes and removed_nodes.
C22_DeterministicPairing ==
    (Returned /\ BothUnique) =>
        /\ \A i, j \in DOMAIN diff.moved_nodes :
              i < j => StrLess(diff.moved_nodes[i].id, diff.moved_nodes[j].id)
        /\ \A i \in DOMAIN diff.moved_nodes :
              \A r \in RemovedCandidates(diff.moved_nodes[i].name)
                          \ {diff.moved_nodes[j].old_id : j \in 1..(i - 1)} :
                  r = diff.moved_nodes[i].old_id \/ StrLess(diff.moved_nodes[i].old_id, r)
        /\ \A d \in compute_diff(graph_a, graph_b, <<>>) :
              /\ d.moved_nodes = diff.moved_nodes
              /\ d.added_nodes = diff.added_nodes
              /\ d.removed_nodes = diff.removed_nodes

\* the entries of a list of the diff whose field has that value
Entries(list, field, id) == {i \in DOMAIN list : list[i][field] = id}

C24_ChildMarksParent ==
    (Returned /\ BothUnique) =>
        \A g \in {graph_a, graph_b} : \A n \in Range(g.nodes) :
            (/\ n.id \notin IdsOf(graph_a.nodes) \cap IdsOf(graph_b.nodes)
             /\ n.parent \in IdsOf(graph_a.nodes) \cap IdsOf(graph_b.nodes)
             /\ n.parent \notin AddedIds \cup RemovedIds \cup MovedIds \cup MovedOldIds)
            => n.parent \in ModifiedIds

\* the ids whose node has the same field values, parent included, in A and in B
Unchanged ==
    {id \in IdsOf(graph_a.nodes) \cap IdsOf(graph_b.nodes) :
        TheNode(graph_a, id) = TheNode(graph_b, id)}

\* C23 as stated: a node with the same id and identical field values in A and B is in
\* none of added_nodes, removed_nodes, moved_nodes and modified_nodes, whatever else
\* differs between the graphs.
C23_UnchangedInNoList ==
    (Returned /\ BothUnique) =>
        Unchanged \cap (AddedIds \cup RemovedIds \cup MovedIds \cup MovedOldIds \cup ModifiedIds)
            = {}

\* C23: a node with the same id and identical field values in A and B is removed (or the
\* old side of a move) only when an ancestor of it in A is absent from B, is added (or the
\* new side of a move) only when an ancestor of it in B is absent from A, and has no entry
\* in modified_nodes other than children_changed.
C23_UnchangedOnlyByCascade ==
    (Returned /\ BothUnique) =>
        \A id \in Unchanged :
            /\ id \in RemovedIds \cup MovedOldIds
                  => \E r \in AncestorsIn(graph_a, id) : r \notin IdsOf(graph_b.nodes)
            /\ id \in AddedIds \cup MovedIds
                  => \E r \in AncestorsIn(graph_b, id) : r \notin IdsOf(graph_a.nodes)
            /\ \A i \in ModifiedEntries(id) :
                  DOMAIN diff.modified_nodes[i].changes = {"children_changed"}

\* an unchanged node that gained a child, and an unchanged node below a removed one
C23_Witness ==
    /\ Returned
    /\ BothUnique
    /\ Unchanged \cap ModifiedIds # {}
    /\ Unchanged \cap RemovedIds # {}

====
